---- MODULE Spec2Model ----
(***************************************************************************)
(* Heads-up No-Limit Hold'em core of nabilervatra/minipokersolver:         *)
(* the hand engine (poker_engine.cpp) and the cards-free abstract state    *)
(* logic (tree_state_logic.cpp), as state machines.                        *)
(***************************************************************************)
EXTENDS Integers, Sequences, FiniteSets, TLC

(* ------------------------------------------------------------------ *)
(* types.hpp: enumerations, in declaration order                       *)
(* ------------------------------------------------------------------ *)
Preflop == 0
Flop == 1
Turn == 2
River == 3
Showdown == 4
Terminal == 5

Fold == 0
Check == 1
Call == 2
Bet == 3
Raise == 4

Players == {0, 1}

Max2(a, b) == IF a >= b THEN a ELSE b
Min2(a, b) == IF a <= b THEN a ELSE b

\* Action{player, type, amount, to_call_before, street}
Action(player, type, amount, to_call_before, street) ==
    [player |-> player, type |-> type, amount |-> amount,
     to_call_before |-> to_call_before, street |-> street]

\* A default-constructed State.
State0 ==
    [street |-> Preflop, pot |-> 0, stacks |-> [p \in Players |-> 0], to_act |-> 0,
     bet_to_call |-> 0, last_bet_size |-> 0, current_bet |-> 0,
     committed_this_round |-> [p \in Players |-> 0],
     committed_total |-> [p \in Players |-> 0],
     folded |-> [p \in Players |-> FALSE],
     history |-> << >>,
     hole_cards |-> [p \in Players |-> <<0, 0>>],
     board |-> << >>,
     used_cards |-> {}]

\* A default-constructed TerminalResult.
TerminalResult0 ==
    [is_terminal |-> FALSE, winner |-> -1, chip_delta |-> [p \in Players |-> 0],
     reason |-> ""]

(* ------------------------------------------------------------------ *)
(* Card and hand evaluator                                             *)
(* ------------------------------------------------------------------ *)
rank_of(card) == (card % 13) + 2

suit_of(card) == card \div 13

\* A packing whose slots are too narrow for the ranks above nine.
pack_score_Base10(category, kickers_desc) ==
    LET k(i) == IF i <= Len(kickers_desc) THEN kickers_desc[i] ELSE 0
    IN  ((((category * 10 + k(1)) * 10 + k(2)) * 10 + k(3)) * 10 + k(4)) * 10 + k(5)

\* Fixed-width base-15 packing: category, then exactly 5 kicker slots.
pack_score(category, kickers_desc) ==
    LET k(i) == IF i <= Len(kickers_desc) THEN kickers_desc[i] ELSE 0
    IN  ((((category * 15 + k(1)) * 15 + k(2)) * 15 + k(3)) * 15 + k(4)) * 15 + k(5)

SetMax(S) == CHOOSE m \in S : \A x \in S : x <= m

SetMin(S) == CHOOSE m \in S : \A x \in S : m <= x

RECURSIVE DescSeq(_)
\* The elements of a set of integers, in descending order.
DescSeq(S) == IF S = {} THEN << >> ELSE LET m == SetMax(S) IN <<m>> \o DescSeq(S \ {m})

RECURSIVE RanksDesc(_, _)
\* std::sort(ranks, greater): the ranks in `desc` (distinct, descending), each
\* repeated as often as it occurs in rk, the ranks of the five cards.
RanksDesc(desc, rk) ==
    IF desc = << >> THEN << >>
    ELSE [i \in 1..Cardinality({j \in 1..5 : rk[j] = Head(desc)}) |-> Head(desc)]
            \o RanksDesc(Tail(desc), rk)

evaluate_5cards(cards) ==
    LET rk == [i \in 1..5 |-> rank_of(cards[i])]
        st == [i \in 1..5 |-> suit_of(cards[i])]
        \* rank_count[r] and suit_count[s]; a rank no card has counts 0
        rank_count(r) == Cardinality({i \in 1..5 : rk[i] = r})
        suit_count(s) == Cardinality({i \in 1..5 : st[i] = s})
        unique_ranks == {rk[i] : i \in 1..5}
        is_flush == \E s \in {st[i] : i \in 1..5} : suit_count(s) = 5
        ranks == RanksDesc(DescSeq(unique_ranks), rk)
        plain_straight == Cardinality(unique_ranks) = 5
                          /\ SetMax(unique_ranks) - SetMin(unique_ranks) = 4
        wheel == unique_ranks = {2, 3, 4, 5, 14}
        is_straight == plain_straight \/ wheel
        straight_high == IF plain_straight THEN SetMax(unique_ranks)
                         ELSE IF wheel THEN 5 ELSE 0
        \* the loop "for r = 14 .. 2" over rank_count, restricted to the ranks present
        fours == DescSeq({r \in unique_ranks : rank_count(r) = 4})
        threes == DescSeq({r \in unique_ranks : rank_count(r) = 3})
        pairs == DescSeq({r \in unique_ranks : rank_count(r) = 2})
        singles == DescSeq({r \in unique_ranks : rank_count(r) = 1})
    IN  IF is_straight /\ is_flush THEN pack_score(8, <<straight_high>>)
        ELSE IF fours # << >> THEN pack_score(7, <<fours[1], singles[1]>>)
        ELSE IF threes # << >> /\ pairs # << >> THEN pack_score(6, <<threes[1], pairs[1]>>)
        ELSE IF is_flush THEN pack_score(5, ranks)
        ELSE IF is_straight THEN pack_score(4, <<straight_high>>)
        ELSE IF threes # << >> THEN pack_score(3, <<threes[1], singles[1], singles[2]>>)
        ELSE IF Len(pairs) >= 2 THEN pack_score(2, <<pairs[1], pairs[2], singles[1]>>)
        ELSE IF Len(pairs) = 1
             THEN pack_score(1, <<pairs[1], singles[1], singles[2], singles[3]>>)
        ELSE pack_score(0, ranks)

\* The five cards of `all` left when positions a and b are skipped.
Without(all, a, b) ==
    LET keep(i) == IF i < a THEN i ELSE IF i + 1 < b THEN i + 1 ELSE i + 2
    IN  [i \in 1..5 |-> all[keep(i)]]

\* A search that only ever leaves out two neighbouring cards.
evaluate_7card_Neighbours(hole, board) ==
    LET all == hole \o board
        skipped == {ab \in (1..7) \X (1..7) : ab[1] + 1 = ab[2]}
    IN  SetMax({-1} \cup {evaluate_5cards(Without(all, ab[1], ab[2])) : ab \in skipped})

evaluate_7card(hole, board) ==
    LET all == hole \o board
        skipped == {ab \in (1..7) \X (1..7) : ab[1] < ab[2]}
    IN  SetMax({-1} \cup {evaluate_5cards(Without(all, ab[1], ab[2])) : ab \in skipped})

(* ------------------------------------------------------------------ *)
(* Hand engine (poker_engine.cpp)                                      *)
(* ------------------------------------------------------------------ *)
\* The engine's pot-fraction sizes {0.5, 1.0, 2.0}, as <<numerator, denominator>>.
EngineSizes == << <<1, 2>>, <<1, 1>>, <<2, 1>> >>

\* Mutant: the fraction of the pot is rounded up.
PotFraction_Ceil(pot, frac) == (pot * frac[1] + frac[2] - 1) \div frac[2]

\* static_cast<int>(pot * x) for a pot >= 0 and x = frac[1] / frac[2].
PotFraction(pot, frac) == (pot * frac[1]) \div frac[2]

\* Mutant: the first value drawn is taken even when the card is in use.
draw_card_NoRedraw(s, rng) ==
    [card |-> Head(rng), state |-> [s EXCEPT !.used_cards = @ \cup {Head(rng)}],
     rng |-> Tail(rng)]

RECURSIVE draw_card(_, _)
\* Rejection sampling over used_cards. rng is the stream of values that
\* dist(rng_) is going to return; the result carries what is left of it.
draw_card(s, rng) ==
    LET c == Head(rng)
    IN  IF c \notin s.used_cards
        THEN [card |-> c, state |-> [s EXCEPT !.used_cards = @ \cup {c}], rng |-> Tail(rng)]
        ELSE draw_card(s, Tail(rng))

\* board.push_back(draw_card(state))
PushBoard(sr) ==
    LET d == draw_card(sr.state, sr.rng)
    IN  [state |-> [d.state EXCEPT !.board = Append(@, d.card)], rng |-> d.rng]

new_hand(rng, starting_stack, small_blind, big_blind) ==
    LET s0 == [State0 EXCEPT
                 !.street = Preflop,
                 !.stacks = [p \in Players |->
                               IF p = 0 THEN starting_stack - small_blind
                               ELSE starting_stack - big_blind],
                 !.to_act = 0,
                 !.committed_this_round = [p \in Players |->
                               IF p = 0 THEN small_blind ELSE big_blind],
                 !.committed_total = [p \in Players |->
                               IF p = 0 THEN small_blind ELSE big_blind],
                 !.current_bet = big_blind,
                 !.bet_to_call = big_blind - small_blind,
                 !.last_bet_size = big_blind - small_blind,
                 !.pot = small_blind + big_blind]
        d1 == draw_card(s0, rng)
        d2 == draw_card(d1.state, d1.rng)
        d3 == draw_card(d2.state, d2.rng)
        d4 == draw_card(d3.state, d3.rng)
    IN  [state |-> [d4.state EXCEPT
                      !.hole_cards = [p \in Players |->
                          IF p = 0 THEN <<d1.card, d2.card>> ELSE <<d3.card, d4.card>>]],
         rng |-> d4.rng]

min_raise_to(s) ==
    LET min_raise_size == Max2(1, s.last_bet_size)
    IN  s.current_bet + min_raise_size

\* Mutant: the comparator puts the larger type and amount first.
ActionLess_Descending(a, b) ==
    IF a.type # b.type THEN a.type > b.type ELSE a.amount > b.amount

\* The comparator of the std::sort call: by type, then by amount.
ActionLess(a, b) == IF a.type # b.type THEN a.type < b.type ELSE a.amount < b.amount

RECURSIVE InsertSorted(_, _)
InsertSorted(sorted, a) ==
    IF sorted = << >> THEN <<a>>
    ELSE IF ActionLess(a, Head(sorted)) THEN <<a>> \o sorted
    ELSE <<Head(sorted)>> \o InsertSorted(Tail(sorted), a)

RECURSIVE SortActions(_)
SortActions(out) ==
    IF out = << >> THEN << >>
    ELSE InsertSorted(SortActions(Tail(out)), Head(out))

RECURSIVE UniqueActions(_)
\* std::unique with the (type, amount) predicate: of each run of equal
\* neighbours the first is kept.
UniqueActions(out) ==
    IF Len(out) <= 1 THEN out
    ELSE IF out[1].type = out[2].type /\ out[1].amount = out[2].amount
         THEN UniqueActions(<<out[1]>> \o Tail(Tail(out)))
         ELSE <<out[1]>> \o UniqueActions(Tail(out))

\* Mutant: sized Bets and Raises are not compared with the stack.
OfferedActions_NoStackTest(s) ==
    LET player == s.to_act
        stack == s.stacks[player]
        call_amount == Max2(0, s.current_bet - s.committed_this_round[player])
        min_to == min_raise_to(s)
        needed(x) == Max2(min_to, s.current_bet + PotFraction(s.pot, x))
                        - s.committed_this_round[player]
        raise_all == [i \in 1..Len(EngineSizes) |->
                        Action(player, Raise, needed(EngineSizes[i]), call_amount, s.street)]
        RaiseOk(a) == a.amount > call_amount
        bet_all == [i \in 1..Len(EngineSizes) |->
                        Action(player, Bet, Max2(1, PotFraction(s.pot, EngineSizes[i])),
                               0, s.street)]
        BetOk(a) == a.amount > 0
        out == IF call_amount > 0
               THEN << Action(player, Fold, 0, call_amount, s.street),
                       Action(player, Call, Min2(call_amount, stack), call_amount, s.street) >>
                    \o (IF stack > call_amount
                        THEN SelectSeq(raise_all, RaiseOk)
                             \o << Action(player, Raise, stack, call_amount, s.street) >>
                        ELSE << >>)
               ELSE << Action(player, Check, 0, 0, s.street) >>
                    \o (IF stack > 0
                        THEN SelectSeq(bet_all, BetOk)
                             \o << Action(player, Bet, stack, 0, s.street) >>
                        ELSE << >>)
    IN  UniqueActions(SortActions(out))

\* The body of legal_actions past its early return.
OfferedActions(s) ==
    LET player == s.to_act
        stack == s.stacks[player]
        call_amount == Max2(0, s.current_bet - s.committed_this_round[player])
        min_to == min_raise_to(s)
        needed(x) == Max2(min_to, s.current_bet + PotFraction(s.pot, x))
                        - s.committed_this_round[player]
        raise_all == [i \in 1..Len(EngineSizes) |->
                        Action(player, Raise, needed(EngineSizes[i]), call_amount, s.street)]
        RaiseOk(a) == a.amount > call_amount /\ a.amount < stack
        bet_all == [i \in 1..Len(EngineSizes) |->
                        Action(player, Bet, Max2(1, PotFraction(s.pot, EngineSizes[i])),
                               0, s.street)]
        BetOk(a) == a.amount < stack
        out == IF call_amount > 0
               THEN << Action(player, Fold, 0, call_amount, s.street),
                       Action(player, Call, Min2(call_amount, stack), call_amount, s.street) >>
                    \o (IF stack > call_amount
                        THEN SelectSeq(raise_all, RaiseOk)
                             \o << Action(player, Raise, stack, call_amount, s.street) >>
                        ELSE << >>)
               ELSE << Action(player, Check, 0, 0, s.street) >>
                    \o (IF stack > 0
                        THEN SelectSeq(bet_all, BetOk)
                             \o << Action(player, Bet, stack, 0, s.street) >>
                        ELSE << >>)
    IN  UniqueActions(SortActions(out))

\* Mutant: the river is taken for the end of the hand.
legal_actions_RiverOver(s) ==
    IF s.street >= River THEN << >> ELSE OfferedActions(s)

\* Mutant: the early return for a hand that is over is missing.
legal_actions_NoEndCheck(s) == OfferedActions(s)

legal_actions(s) ==
    IF s.street = Terminal \/ s.street = Showdown THEN << >> ELSE OfferedActions(s)

is_round_closed(s) ==
    IF s.folded[0] \/ s.folded[1] THEN TRUE
    ELSE s.committed_this_round[0] = s.committed_this_round[1]

\* Mutant: the new street inherits last_bet_size.
advance_street_KeepLastBet(s, rng) ==
    LET r == [s EXCEPT !.bet_to_call = 0, !.current_bet = 0,
                       !.committed_this_round = [p \in Players |-> 0]]
        sr == [state |-> r, rng |-> rng]
        dealt ==
            IF s.street = Preflop
            THEN LET d == PushBoard(PushBoard(PushBoard(sr)))
                 IN  [d EXCEPT !.state.street = Flop]
            ELSE IF s.street = Flop
            THEN LET d == PushBoard(sr) IN [d EXCEPT !.state.street = Turn]
            ELSE IF s.street = Turn
            THEN LET d == PushBoard(sr) IN [d EXCEPT !.state.street = River]
            ELSE IF s.street = River
            THEN [sr EXCEPT !.state.street = Showdown]
            ELSE sr
    IN  [dealt EXCEPT !.state.to_act = 0]

advance_street(s, rng) ==
    LET r == [s EXCEPT !.bet_to_call = 0, !.current_bet = 0, !.last_bet_size = 0,
                       !.committed_this_round = [p \in Players |-> 0]]
        sr == [state |-> r, rng |-> rng]
        dealt ==
            IF s.street = Preflop
            THEN LET d == PushBoard(PushBoard(PushBoard(sr)))
                 IN  [d EXCEPT !.state.street = Flop]
            ELSE IF s.street = Flop
            THEN LET d == PushBoard(sr) IN [d EXCEPT !.state.street = Turn]
            ELSE IF s.street = Turn
            THEN LET d == PushBoard(sr) IN [d EXCEPT !.state.street = River]
            ELSE IF s.street = River
            THEN [sr EXCEPT !.state.street = Showdown]
            ELSE sr
    IN  [dealt EXCEPT !.state.to_act = 0]

RECURSIVE deal_remaining_board(_, _)
deal_remaining_board(s, rng) ==
    IF Len(s.board) < 5
    THEN LET d == PushBoard([state |-> s, rng |-> rng])
         IN  deal_remaining_board(d.state, d.rng)
    ELSE [state |-> s, rng |-> rng]

\* The lambda of apply_action: deal the rest of the board and end the hand
\* when nobody folded and somebody has no chips left.
\* Mutant: the hand is forced to a showdown only when both stacks are empty.
AllInNow_BothBroke(s) == ~s.folded[0] /\ ~s.folded[1] /\ s.stacks[0] = 0 /\ s.stacks[1] = 0

AllInNow(s) == ~s.folded[0] /\ ~s.folded[1] /\ (s.stacks[0] = 0 \/ s.stacks[1] = 0)

force_allin_showdown(s, rng) ==
    LET d == deal_remaining_board(s, rng)
    IN  [state |-> [d.state EXCEPT !.street = Terminal, !.to_act = 0, !.bet_to_call = 0,
                                   !.current_bet = 0, !.last_bet_size = 0,
                                   !.committed_this_round = [p \in Players |-> 0]],
         rng |-> d.rng]

\* Mutant: the chips are committed but stay in the stack.
Commit_KeepStack(s, p, put) ==
    [s EXCEPT !.committed_this_round[p] = @ + put,
              !.committed_total[p] = @ + put,
              !.pot = @ + put]

\* Mutant: the chips never reach the pot.
Commit_NoPot(s, p, put) ==
    [s EXCEPT !.stacks[p] = @ - put,
              !.committed_this_round[p] = @ + put,
              !.committed_total[p] = @ + put]

\* Player p puts `put` chips in: stack, both commitments and the pot.
Commit(s, p, put) ==
    [s EXCEPT !.stacks[p] = @ - put,
              !.committed_this_round[p] = @ + put,
              !.committed_total[p] = @ + put,
              !.pot = @ + put]

\* Mutant: what the actor owes, where the next player's debt is meant.
Owed_Self(s, q) == Max2(0, s.current_bet - s.committed_this_round[1 - q])

\* std::max(0, current_bet - committed_this_round[q])
Owed(s, q) == Max2(0, s.current_bet - s.committed_this_round[q])

\* Mutant: the hand is left on Showdown.
AdvanceAndSettle_Unsettled(s, rng) == advance_street(s, rng)

\* advance_street, then the caller's "if Showdown: deal the rest, Terminal".
AdvanceAndSettle(s, rng) ==
    LET adv == advance_street(s, rng)
    IN  IF adv.state.street = Showdown
        THEN LET d == deal_remaining_board(adv.state, adv.rng)
             IN  [d EXCEPT !.state.street = Terminal]
        ELSE adv

\* Mutant: the player is not compared.
SameAction_AnyPlayer(a, action) == a.type = action.type /\ a.amount = action.amount

\* a.type == action.type && a.amount == action.amount && a.player == action.player
SameAction(a, action) ==
    a.type = action.type /\ a.amount = action.amount /\ a.player = action.player

IsLegal(s, action) ==
    LET legals == legal_actions(s)
    IN  \E i \in 1..Len(legals) : SameAction(legals[i], action)

\* Mutant: a fold leaves the street as it is.
ApplyFold_StreetKept(s, rng, action) ==
    [state |-> [s EXCEPT !.folded[action.player] = TRUE], rng |-> rng]

ApplyFold(s, rng, action) ==
    [state |-> [s EXCEPT !.folded[action.player] = TRUE, !.street = Terminal], rng |-> rng]

ApplyCheck(s, rng, action) ==
    LET opp == 1 - action.player
        n == Len(s.history)
    IN  IF AllInNow(s) THEN force_allin_showdown(s, rng)
        ELSE IF is_round_closed(s) /\ n >= 2 /\ s.history[n - 1].street = s.street
        THEN AdvanceAndSettle(s, rng)
        ELSE [state |-> [s EXCEPT !.to_act = opp], rng |-> rng]

ApplyCall(s, rng, action) ==
    LET p == action.player
        opp == 1 - p
        put == Min2(action.amount, s.stacks[p])
        s1 == Commit(s, p, put)
        s2 == [s1 EXCEPT !.bet_to_call = Owed(s1, opp)]
    IN  IF AllInNow(s2) THEN force_allin_showdown(s2, rng)
        ELSE IF is_round_closed(s2) THEN AdvanceAndSettle(s2, rng)
        ELSE [state |-> [s2 EXCEPT !.to_act = opp], rng |-> rng]

ApplyBetRaise(s, rng, action) ==
    LET p == action.player
        opp == 1 - p
        put == Min2(action.amount, s.stacks[p])
        s1 == Commit(s, p, put)
        new_bet == s1.committed_this_round[p]
        prior_current == s1.current_bet
        s2 == [s1 EXCEPT !.current_bet = Max2(prior_current, new_bet)]
        s3 == [s2 EXCEPT !.last_bet_size = Max2(1, s2.current_bet - prior_current),
                         !.bet_to_call = Owed(s2, opp)]
    IN  IF AllInNow(s3) THEN force_allin_showdown(s3, rng)
        ELSE [state |-> [s3 EXCEPT !.to_act = opp], rng |-> rng]

\* Mutant: the Bet/Raise branch falls through to the final "return false".
apply_action_RaiseFallsThrough(s, rng, action) ==
    IF ~IsLegal(s, action) THEN [ok |-> FALSE, state |-> s, rng |-> rng]
    ELSE
    LET pushed == [s EXCEPT !.history = Append(@, action)]
        r == IF action.type = Fold THEN ApplyFold(pushed, rng, action)
             ELSE IF action.type = Check THEN ApplyCheck(pushed, rng, action)
             ELSE IF action.type = Call THEN ApplyCall(pushed, rng, action)
             ELSE ApplyBetRaise(pushed, rng, action)
    IN  [ok |-> action.type \notin {Bet, Raise}, state |-> r.state, rng |-> r.rng]

\* Engine::apply_action: [ok, state, rng] with ok the value returned.
apply_action(s, rng, action) ==
    IF ~IsLegal(s, action) THEN [ok |-> FALSE, state |-> s, rng |-> rng]
    ELSE
    LET pushed == [s EXCEPT !.history = Append(@, action)]
        r == IF action.type = Fold THEN ApplyFold(pushed, rng, action)
             ELSE IF action.type = Check THEN ApplyCheck(pushed, rng, action)
             ELSE IF action.type = Call THEN ApplyCall(pushed, rng, action)
             ELSE ApplyBetRaise(pushed, rng, action)
    IN  [ok |-> TRUE, state |-> r.state, rng |-> r.rng]

\* Mutant: both players get half the pot, rounded down.
SplitPayout_Halves(pot, p) == pot \div 2

\* The payouts of a split: payout[0] = pot / 2, payout[1] = pot - payout[0].
SplitPayout(pot, p) == IF p = 0 THEN pot \div 2 ELSE pot - pot \div 2

\* state.folded[0] != state.folded[1]
EndedByFold(s) == s.folded[0] # s.folded[1]

\* The reason terminal_payoff reports for a Terminal state.
PayoffReason(s) == IF EndedByFold(s) THEN "fold" ELSE "showdown"

\* Mutant: the pot goes to the player who folded.
FoldWinner_Folder(s) == IF s.folded[0] THEN 0 ELSE 1

\* const int winner = state.folded[0] ? 1 : 0;
FoldWinner(s) == IF s.folded[0] THEN 1 ELSE 0

\* Mutant: the street is not looked at; a fold-less unfinished hand is reported
\* as a showdown without a winner.
terminal_payoff_NoStreetTest(s) ==
    [is_terminal |-> TRUE,
     winner |-> IF EndedByFold(s) THEN FoldWinner(s) ELSE -1,
     chip_delta |-> [p \in Players |-> 0],
     reason |-> PayoffReason(s)]

terminal_payoff(s) ==
    IF s.street # Terminal THEN TerminalResult0
    ELSE
    LET by_fold == EndedByFold(s)
        fold_winner == FoldWinner(s)
        s0 == evaluate_7card(s.hole_cards[0], s.board)
        s1 == evaluate_7card(s.hole_cards[1], s.board)
        winner == IF by_fold THEN fold_winner
                  ELSE IF s0 > s1 THEN 0 ELSE IF s1 > s0 THEN 1 ELSE -1
        payout == [p \in Players |->
                     IF winner = -1 THEN SplitPayout(s.pot, p)
                     ELSE IF p = winner THEN s.pot ELSE 0]
    IN  [is_terminal |-> TRUE,
         winner |-> winner,
         chip_delta |-> [p \in Players |-> payout[p] - s.committed_total[p]],
         reason |-> PayoffReason(s)]

(* ------------------------------------------------------------------ *)
(* Abstract state logic (tree.hpp, tree_state_logic.cpp)               *)
(* ------------------------------------------------------------------ *)
KindFold == "Fold"
KindShowdown == "Showdown"

\* A default-constructed TreeState.
TreeState0 ==
    [street |-> Preflop, pot |-> 0, stacks |-> [p \in Players |-> 0], to_act |-> 0,
     bet_to_call |-> 0, last_bet_size |-> 0, current_bet |-> 0,
     committed_this_round |-> [p \in Players |-> 0],
     committed_total |-> [p \in Players |-> 0],
     folded |-> [p \in Players |-> FALSE],
     acted_this_round |-> [p \in Players |-> FALSE],
     raises_this_street |-> 0]

\* A Transition around state s, with the struct's default flags.
Transition0(s) ==
    [state |-> s, via_chance |-> FALSE, is_terminal |-> FALSE, terminal_kind |-> KindShowdown]

street_index(street) == street

initial_state(ab) ==
    [TreeState0 EXCEPT
        !.street = Preflop,
        !.stacks = [p \in Players |->
                      IF p = 0 THEN ab.starting_stack - ab.small_blind
                      ELSE ab.starting_stack - ab.big_blind],
        !.committed_this_round = [p \in Players |->
                      IF p = 0 THEN ab.small_blind ELSE ab.big_blind],
        !.committed_total = [p \in Players |->
                      IF p = 0 THEN ab.small_blind ELSE ab.big_blind],
        !.pot = ab.small_blind + ab.big_blind,
        !.current_bet = ab.big_blind,
        !.bet_to_call = ab.big_blind - ab.small_blind,
        !.last_bet_size = ab.big_blind - ab.small_blind,
        !.to_act = 0,
        !.acted_this_round = [p \in Players |-> FALSE],
        !.raises_this_street = 0]

\* Mutant: the raise counter survives the street.
detail_advance_street_KeepRaises(s) ==
    [s EXCEPT !.bet_to_call = 0, !.current_bet = 0, !.last_bet_size = 0,
              !.committed_this_round = [p \in Players |-> 0],
              !.acted_this_round = [p \in Players |-> FALSE],
              !.street = IF s.street = Preflop THEN Flop
                         ELSE IF s.street = Flop THEN Turn
                         ELSE IF s.street = Turn THEN River
                         ELSE IF s.street = River THEN Terminal
                         ELSE s.street,
              !.to_act = 0]

detail_advance_street(s) ==
    [s EXCEPT !.bet_to_call = 0, !.current_bet = 0, !.last_bet_size = 0,
              !.committed_this_round = [p \in Players |-> 0],
              !.acted_this_round = [p \in Players |-> FALSE],
              !.raises_this_street = 0,
              !.street = IF s.street = Preflop THEN Flop
                         ELSE IF s.street = Flop THEN Turn
                         ELSE IF s.street = Turn THEN River
                         ELSE IF s.street = River THEN Terminal
                         ELSE s.street,
              !.to_act = 0]

detail_min_raise_to(s) ==
    LET min_raise_size == Max2(1, s.last_bet_size)
    IN  s.current_bet + min_raise_size

detail_is_round_closed(s) ==
    IF s.folded[0] \/ s.folded[1] THEN TRUE
    ELSE /\ s.committed_this_round[0] = s.committed_this_round[1]
         /\ s.acted_this_round[0]
         /\ s.acted_this_round[1]

finish_showdown(t) ==
    [t EXCEPT !.state.street = Terminal, !.state.to_act = 0, !.state.bet_to_call = 0,
              !.state.current_bet = 0, !.state.last_bet_size = 0,
              !.state.committed_this_round = [p \in Players |-> 0],
              !.state.acted_this_round = [p \in Players |-> FALSE],
              !.is_terminal = TRUE, !.terminal_kind = KindShowdown]

detail_legal_actions(s, ab) ==
    IF s.street = Terminal \/ s.street = Showdown THEN << >>
    ELSE IF street_index(s.street) < 0 \/ street_index(s.street) > 3 THEN << >>
    ELSE
    LET si == street_index(s.street)
        p == s.to_act
        stack == s.stacks[p]
        call_amount == Max2(0, s.current_bet - s.committed_this_round[p])
        min_to == detail_min_raise_to(s)
        raise_sizes == ab.raise_sizes_by_street[si + 1]
        bet_sizes == ab.bet_sizes_by_street[si + 1]
        needed(x) == Max2(min_to, s.current_bet + PotFraction(s.pot, x))
                        - s.committed_this_round[p]
        raise_all == [i \in 1..Len(raise_sizes) |->
                        Action(p, Raise, needed(raise_sizes[i]), call_amount, s.street)]
        RaiseOk(a) == a.amount > call_amount /\ a.amount < stack
        bet_all == [i \in 1..Len(bet_sizes) |->
                        Action(p, Bet, Max2(1, PotFraction(s.pot, bet_sizes[i])), 0, s.street)]
        BetOk(a) == a.amount < stack
        out == IF call_amount > 0
               THEN << Action(p, Fold, 0, call_amount, s.street),
                       Action(p, Call, Min2(call_amount, stack), call_amount, s.street) >>
                    \o (IF stack > call_amount
                           /\ s.raises_this_street < ab.max_raises_per_street
                        THEN SelectSeq(raise_all, RaiseOk)
                             \o (IF ab.allow_all_in
                                 THEN << Action(p, Raise, stack, call_amount, s.street) >>
                                 ELSE << >>)
                        ELSE << >>)
               ELSE << Action(p, Check, 0, 0, s.street) >>
                    \o (IF stack > 0 /\ s.raises_this_street < ab.max_raises_per_street
                        THEN SelectSeq(bet_all, BetOk)
                             \o (IF ab.allow_all_in
                                 THEN << Action(p, Bet, stack, 0, s.street) >>
                                 ELSE << >>)
                        ELSE << >>)
    IN  UniqueActions(SortActions(out))

\* The shared tail of the Check and Call branches.
\* Mutant: the move from the River to Terminal is reported as a chance too.
CloseOrPass_ChanceAtRiver(t, opp) ==
    IF detail_is_round_closed(t.state)
    THEN LET adv == [t EXCEPT !.state = detail_advance_street(t.state)]
         IN  IF adv.state.street = Terminal
             THEN [adv EXCEPT !.is_terminal = TRUE, !.terminal_kind = KindShowdown,
                              !.via_chance = TRUE]
             ELSE [adv EXCEPT !.via_chance = TRUE]
    ELSE [t EXCEPT !.state.to_act = opp,
                   !.state.bet_to_call =
                       Max2(0, t.state.current_bet - t.state.committed_this_round[opp])]

CloseOrPass(t, opp) ==
    IF detail_is_round_closed(t.state)
    THEN LET adv == [t EXCEPT !.state = detail_advance_street(t.state)]
         IN  IF adv.state.street = Terminal
             THEN [adv EXCEPT !.is_terminal = TRUE, !.terminal_kind = KindShowdown]
             ELSE [adv EXCEPT !.via_chance = TRUE]
    ELSE [t EXCEPT !.state.to_act = opp,
                   !.state.bet_to_call =
                       Max2(0, t.state.current_bet - t.state.committed_this_round[opp])]

TreeAllInNow(s) == ~s.folded[0] /\ ~s.folded[1] /\ (s.stacks[0] = 0 \/ s.stacks[1] = 0)

TreeFold(t, a) ==
    [t EXCEPT !.state.folded[a.player] = TRUE, !.state.street = Terminal,
              !.state.to_act = 1 - a.player, !.state.bet_to_call = 0,
              !.state.current_bet = 0, !.state.last_bet_size = 0,
              !.state.committed_this_round = [p \in Players |-> 0],
              !.state.acted_this_round = [p \in Players |-> FALSE],
              !.is_terminal = TRUE, !.terminal_kind = KindFold]

\* Mutant: a Check leaves no mark and only passes the turn.
TreeCheck_NoFlag(t, a) ==
    [t EXCEPT !.state.to_act = 1 - a.player]

TreeCheck(t, a) ==
    CloseOrPass([t EXCEPT !.state.acted_this_round[a.player] = TRUE], 1 - a.player)

TreeCall(t, a) ==
    LET p == a.player
        put == Min2(a.amount, t.state.stacks[p])
        t1 == [t EXCEPT !.state.stacks[p] = @ - put,
                        !.state.committed_this_round[p] = @ + put,
                        !.state.committed_total[p] = @ + put,
                        !.state.pot = @ + put,
                        !.state.acted_this_round[p] = TRUE]
    IN  IF TreeAllInNow(t1.state) THEN finish_showdown(t1)
        ELSE CloseOrPass(t1, 1 - p)

TreeBetRaise(t, a) ==
    LET p == a.player
        opp == 1 - p
        put == Min2(a.amount, t.state.stacks[p])
        t1 == [t EXCEPT !.state.stacks[p] = @ - put,
                        !.state.committed_this_round[p] = @ + put,
                        !.state.committed_total[p] = @ + put,
                        !.state.pot = @ + put]
        new_bet == t1.state.committed_this_round[p]
        prior_current == t1.state.current_bet
        t2 == [t1 EXCEPT !.state.current_bet = Max2(prior_current, new_bet)]
        t3 == [t2 EXCEPT
                 !.state.last_bet_size = Max2(1, t2.state.current_bet - prior_current),
                 !.state.bet_to_call =
                     Max2(0, t2.state.current_bet - t2.state.committed_this_round[opp]),
                 !.state.acted_this_round = [q \in Players |-> q = p],
                 !.state.raises_this_street = @ + 1,
                 !.state.to_act = opp]
    IN  IF TreeAllInNow(t3.state) THEN finish_showdown(t3) ELSE t3

\* detail::apply_action: the Transition out of TreeState `input` by action a.
detail_apply_action(input, a) ==
    LET t == Transition0(input)
    IN  IF a.type = Fold THEN TreeFold(t, a)
        ELSE IF a.type = Check THEN TreeCheck(t, a)
        ELSE IF a.type = Call THEN TreeCall(t, a)
        ELSE TreeBetRaise(t, a)

\* Mutant: every terminal is filled in as a showdown.
terminal_from_state_AllShowdown(s, kind) ==
    [kind |-> KindShowdown, winner |-> -1, pot |-> s.pot,
     committed_total |-> s.committed_total,
     chip_delta_if_forced |-> [p \in Players |-> 0]]

\* Mutant: the pot of a Fold terminal goes to the player who folded.
terminal_from_state_FolderWins(s, kind) ==
    LET winner == IF s.folded[0] THEN 0 ELSE 1
    IN  IF kind = KindFold
        THEN [kind |-> kind, winner |-> winner, pot |-> s.pot,
              committed_total |-> s.committed_total,
              chip_delta_if_forced |->
                  [p \in Players |->
                      (IF p = winner THEN s.pot ELSE 0) - s.committed_total[p]]]
        ELSE [kind |-> kind, winner |-> -1, pot |-> s.pot,
              committed_total |-> s.committed_total,
              chip_delta_if_forced |-> [p \in Players |-> 0]]

terminal_from_state(s, kind) ==
    LET winner == IF s.folded[0] THEN 1 ELSE 0
    IN  IF kind = KindFold
        THEN [kind |-> kind, winner |-> winner, pot |-> s.pot,
              committed_total |-> s.committed_total,
              chip_delta_if_forced |->
                  [p \in Players |->
                      (IF p = winner THEN s.pot ELSE 0) - s.committed_total[p]]]
        ELSE [kind |-> kind, winner |-> -1, pot |-> s.pot,
              committed_total |-> s.committed_total,
              chip_delta_if_forced |-> [p \in Players |-> 0]]

(* ------------------------------------------------------------------ *)
(* Tree builder (tree.hpp, tree_builder.cpp)                           *)
(* ------------------------------------------------------------------ *)
NodeDecision == "Decision"
NodeChance == "Chance"
NodeTerminal == "Terminal"

\* A default-constructed TerminalData.
TerminalData0 ==
    [kind |-> KindShowdown, winner |-> -1, pot |-> 0,
     committed_total |-> [p \in Players |-> 0],
     chip_delta_if_forced |-> [p \in Players |-> 0]]

\* A default-constructed GameTree.
GameTree0 == [root_id |-> -1, nodes |-> << >>]

\* static_cast<int>(bool)
BoolInt(b) == IF b THEN 1 ELSE 0

\* Mutant: the street is left out of the key.
state_key_NoStreet(s) ==
    <<"", "|", s.pot, "|", s.stacks[0], ",", s.stacks[1], "|", s.to_act,
      "|", s.bet_to_call, "|", s.last_bet_size, "|", s.current_bet,
      "|", s.committed_this_round[0], ",", s.committed_this_round[1],
      "|", s.committed_total[0], ",", s.committed_total[1],
      "|", BoolInt(s.folded[0]), ",", BoolInt(s.folded[1]),
      "|", BoolInt(s.acted_this_round[0]), ",", BoolInt(s.acted_this_round[1]),
      "|", s.raises_this_street>>

\* detail::state_key: the pieces written to the stream, in order: the numbers
\* (each printed in decimal) and the separators "|" and "," between them.
state_key(s) ==
    <<street_index(s.street), "|", s.pot, "|", s.stacks[0], ",", s.stacks[1], "|", s.to_act,
      "|", s.bet_to_call, "|", s.last_bet_size, "|", s.current_bet,
      "|", s.committed_this_round[0], ",", s.committed_this_round[1],
      "|", s.committed_total[0], ",", s.committed_total[1],
      "|", BoolInt(s.folded[0]), ",", BoolInt(s.folded[1]),
      "|", BoolInt(s.acted_this_round[0]), ",", BoolInt(s.acted_this_round[1]),
      "|", s.raises_this_street>>

\* A freshly constructed BuildContext{abstraction_, max_nodes, GameTree{}, {}};
\* memo maps a key to a node id.
BuildContext0(max_nodes) ==
    [max_nodes |-> max_nodes, tree |-> GameTree0, memo |-> << >>]

\* A call of the builder that has not returned yet: TreeBuilder::build ("build"),
\* build_decision_or_terminal past its make_node ("decision": actions[k] is the
\* next action of its loop) or build_chance past its make_node ("chance"). done
\* says the call has nothing left to do but return.
Frame(fn, id, s, actions) ==
    [fn |-> fn, id |-> id, s |-> s, actions |-> actions, k |-> 1, done |-> actions = << >> /\ fn = "decision"]

\* The call build_terminal(s, kind).
TerminalCall(s, kind) == [fn |-> "terminal", s |-> s, kind |-> kind]

\* The call build_chance(s).
ChanceCall(s) == [fn |-> "chance", s |-> s, kind |-> KindShowdown]

\* The call build_decision_or_terminal(s): a Terminal street is handed on to
\* build_terminal.
DecisionCall(s) ==
    IF s.street = Terminal
    THEN TerminalCall(s, IF s.folded[0] \/ s.folded[1] THEN KindFold ELSE KindShowdown)
    ELSE [fn |-> "decision", s |-> s, kind |-> KindShowdown]

\* The call the frame makes next: build calls build_decision_or_terminal(root),
\* build_chance calls build_decision_or_terminal(s), and the loop of
\* build_decision_or_terminal picks the callee by the Transition of actions[k].
NextCall(f) ==
    IF f.fn = "decision"
    THEN LET tr == detail_apply_action(f.s, f.actions[f.k])
         IN  IF tr.is_terminal THEN TerminalCall(tr.state, tr.terminal_kind)
             ELSE IF tr.via_chance THEN ChanceCall(tr.state)
             ELSE DecisionCall(tr.state)
    ELSE DecisionCall(f.s)

\* The memo key of a call: "T:F:", "T:S:", "C:" or "D:" followed by state_key(s).
CallKey(c) ==
    IF c.fn = "terminal"
    THEN <<IF c.kind = KindFold THEN "T:F:" ELSE "T:S:">> \o state_key(c.s)
    ELSE IF c.fn = "chance" THEN <<"C:">> \o state_key(c.s)
    ELSE <<"D:">> \o state_key(c.s)

\* Mutant: ids are counted from 1.
NewNode_IdFromOne(c, id) ==
    [id |-> id + 1,
     type |-> IF c.fn = "terminal" THEN NodeTerminal
              ELSE IF c.fn = "chance" THEN NodeChance ELSE NodeDecision,
     key |-> CallKey(c),
     state |-> c.s,
     actions |-> << >>,
     children |-> << >>,
     terminal |-> IF c.fn = "terminal" THEN terminal_from_state(c.s, c.kind)
                  ELSE TerminalData0]

\* The TreeNode a call constructs when its key is not in memo.
NewNode(c, id) ==
    [id |-> id,
     type |-> IF c.fn = "terminal" THEN NodeTerminal
              ELSE IF c.fn = "chance" THEN NodeChance ELSE NodeDecision,
     key |-> CallKey(c),
     state |-> c.s,
     actions |-> << >>,
     children |-> << >>,
     terminal |-> IF c.fn = "terminal" THEN terminal_from_state(c.s, c.kind)
                  ELSE TerminalData0]

\* Mutant: the budget allows one node more.
make_node_OffByOne(ctx, n) ==
    IF Len(ctx.tree.nodes) > ctx.max_nodes
    THEN [thrown |-> TRUE, ctx |-> ctx, id |-> -1]
    ELSE [thrown |-> FALSE,
          ctx |-> [ctx EXCEPT !.tree.nodes = Append(@, n)],
          id |-> n.id]

\* BuildContext::make_node: throws when the tree already has max_nodes nodes.
make_node(ctx, n) ==
    IF Len(ctx.tree.nodes) >= ctx.max_nodes
    THEN [thrown |-> TRUE, ctx |-> ctx, id |-> -1]
    ELSE [thrown |-> FALSE,
          ctx |-> [ctx EXCEPT !.tree.nodes = Append(@, n)],
          id |-> n.id]

\* memo.emplace(key, id): a key already present keeps its id.
Emplace(memo, key, id) == memo @@ (key :> id)

\* Mutant: the child is recorded without its action.
Deliver_NoAction(f, ctx, child) ==
    IF f.fn = "decision"
    THEN [frame |-> [f EXCEPT !.k = @ + 1, !.done = (f.k + 1 > Len(f.actions))],
          ctx |-> [ctx EXCEPT !.tree.nodes[f.id + 1].children = Append(@, child)]]
    ELSE IF f.fn = "chance"
    THEN [frame |-> [f EXCEPT !.done = TRUE],
          ctx |-> [ctx EXCEPT !.tree.nodes[f.id + 1].children = Append(@, child)]]
    ELSE [frame |-> [f EXCEPT !.done = TRUE],
          ctx |-> [ctx EXCEPT !.tree.root_id = child]]

\* Mutant: the caller records its own id in place of the child's.
Deliver_OwnId(f, ctx, child) ==
    IF f.fn = "decision"
    THEN [frame |-> [f EXCEPT !.k = @ + 1, !.done = (f.k + 1 > Len(f.actions))],
          ctx |-> [ctx EXCEPT
                     !.tree.nodes[f.id + 1].actions = Append(@, f.actions[f.k]),
                     !.tree.nodes[f.id + 1].children = Append(@, f.id)]]
    ELSE IF f.fn = "chance"
    THEN [frame |-> [f EXCEPT !.done = TRUE],
          ctx |-> [ctx EXCEPT !.tree.nodes[f.id + 1].children = Append(@, f.id)]]
    ELSE [frame |-> [f EXCEPT !.done = TRUE],
          ctx |-> [ctx EXCEPT !.tree.root_id = child]]

\* What the caller f does with the id its callee returned: the loop of
\* build_decision_or_terminal pushes the action and the child and moves on,
\* build_chance pushes the child, build stores root_id.
Deliver(f, ctx, child) ==
    IF f.fn = "decision"
    THEN [frame |-> [f EXCEPT !.k = @ + 1, !.done = (f.k + 1 > Len(f.actions))],
          ctx |-> [ctx EXCEPT
                     !.tree.nodes[f.id + 1].actions = Append(@, f.actions[f.k]),
                     !.tree.nodes[f.id + 1].children = Append(@, child)]]
    ELSE IF f.fn = "chance"
    THEN [frame |-> [f EXCEPT !.done = TRUE],
          ctx |-> [ctx EXCEPT !.tree.nodes[f.id + 1].children = Append(@, child)]]
    ELSE [frame |-> [f EXCEPT !.done = TRUE],
          ctx |-> [ctx EXCEPT !.tree.root_id = child]]

\* The sequence cs with its last element replaced by f.
ReplaceTop(cs, f) == [cs EXCEPT ![Len(cs)] = f]

\* A call of build_terminal, build_chance or build_decision_or_terminal run to
\* its end, everything it calls included: [thrown, ctx, id], id being the value
\* returned. b is the abstraction (BuildContext::ab).
RECURSIVE build_call(_, _, _)
\* The loop of build_decision_or_terminal over actions, from actions[k] on.
RECURSIVE build_loop(_, _, _)
build_call(ctx, c, b) ==
    LET key == CallKey(c)
        made == make_node(ctx, NewNode(c, Len(ctx.tree.nodes)))
        memoised == [made.ctx EXCEPT !.memo = Emplace(@, key, made.id)]
    IN  IF key \in DOMAIN ctx.memo
        THEN [thrown |-> FALSE, ctx |-> ctx, id |-> ctx.memo[key]]
        ELSE IF made.thrown THEN [thrown |-> TRUE, ctx |-> ctx, id |-> -1]
        ELSE IF c.fn = "terminal"
        THEN [thrown |-> FALSE, ctx |-> memoised, id |-> made.id]
        ELSE IF c.fn = "chance"
        THEN LET f == Frame("chance", made.id, c.s, << >>)
                 r == build_call(memoised, NextCall(f), b)
             IN  IF r.thrown THEN r
                 ELSE [thrown |-> FALSE, ctx |-> Deliver(f, r.ctx, r.id).ctx, id |-> made.id]
        ELSE build_loop(memoised,
                        Frame("decision", made.id, c.s, detail_legal_actions(c.s, b)), b)

build_loop(ctx, f, b) ==
    IF f.done THEN [thrown |-> FALSE, ctx |-> ctx, id |-> f.id]
    ELSE LET r == build_call(ctx, NextCall(f), b)
             d == Deliver(f, r.ctx, r.id)
         IN  IF r.thrown THEN r ELSE build_loop(d.ctx, d.frame, b)

(* ------------------------------------------------------------------ *)
(* Inputs                                                              *)
(* ------------------------------------------------------------------ *)
\* Engine::new_hand's default arguments.
DefaultStack == 1000
DefaultSmallBlind == 5
DefaultBigBlind == 10

\* The 200-action guard of the drivers' loops.
GuardLimit == 200

\* The starting stack of the small hands (blinds 1/2).
TestStack == 12

\* The most raises per street among the small abstractions.
TestMaxRaises == 2

DefaultArgs ==
    [starting_stack |-> DefaultStack, small_blind |-> DefaultSmallBlind,
     big_blind |-> DefaultBigBlind]

TestArgs == [starting_stack |-> TestStack, small_blind |-> 1, big_blind |-> 2]

\* What dist(rng_) returns, draw after draw (card = 13 * suit + rank - 2):
\* aces against kings, with a repeated draw to reject.
StreamP0 == <<12, 25, 12, 11, 24, 0, 14, 33, 25, 48, 5>>
\* kings against aces.
StreamP1 == <<11, 24, 12, 25, 0, 14, 0, 33, 48, 5>>
\* ace-king against ace-king on a board that gives neither a flush.
StreamSplit == <<12, 11, 25, 24, 26, 40, 33, 48, 31>>

Streams == {StreamP0, StreamP1, StreamSplit}

ThreeSizes == << <<1, 2>>, <<1, 1>>, <<2, 1>> >>

\* BettingAbstraction{} (TreeBuilder::default_abstraction).
DefaultAbstraction ==
    [starting_stack |-> 1000, small_blind |-> 5, big_blind |-> 10,
     max_raises_per_street |-> 2, allow_all_in |-> TRUE,
     bet_sizes_by_street |-> <<ThreeSizes, ThreeSizes, ThreeSizes, ThreeSizes>>,
     raise_sizes_by_street |-> <<ThreeSizes, ThreeSizes, ThreeSizes, ThreeSizes>>]

\* The abstraction solve_main builds its tree from.
SolveSizes ==
    << << <<1, 2>>, <<1, 1>> >>, << <<1, 2>>, <<1, 1>> >>, << <<1, 1>> >>, << <<1, 1>> >> >>

SolveAbstraction ==
    [DefaultAbstraction EXCEPT !.max_raises_per_street = 2,
                               !.bet_sizes_by_street = SolveSizes,
                               !.raise_sizes_by_street = SolveSizes]

\* Small abstractions: every raise cap up to TestMaxRaises, with and without all-in.
TestAbstractions ==
    {[DefaultAbstraction EXCEPT !.starting_stack = TestStack, !.small_blind = 1,
                                !.big_blind = 2, !.max_raises_per_street = m,
                                !.allow_all_in = al] :
        m \in 0..TestMaxRaises, al \in BOOLEAN}

Abstractions == {DefaultAbstraction, SolveAbstraction} \cup TestAbstractions

ActionTypes == {Fold, Check, Call, Bet, Raise}

\* builder.build(300000) of solve_main.
SolveBudget == 300000

\* A node budget near the size of the smallest trees.
SmallBudget == 13

\* The budgets the small trees are built with: one node short of the smallest
\* tree, just enough for it, and solve_main's.
Budgets == {SmallBudget - 1, SmallBudget, SolveBudget}

\* The requests a caller makes besides the legal actions: the opponent acting out
\* of turn, a Call of one chip too many, a Bet of nothing.
Requests(s) ==
    { Action(1 - s.to_act, Check, 0, s.bet_to_call, s.street),
      Action(1 - s.to_act, Fold, 0, s.bet_to_call, s.street),
      Action(s.to_act, Call, s.bet_to_call + 1, s.bet_to_call, s.street),
      Action(s.to_act, Bet, 0, s.bet_to_call, s.street) }

\* A wider set of possible arguments of apply_action in state s: either player,
\* every type, and the amounts 0, to-call + 1 and the actor's stack.
Probes(s) ==
    {Action(p, ty, am, s.bet_to_call, s.street) :
        p \in Players, ty \in ActionTypes,
        am \in {0, s.bet_to_call + 1, s.stacks[s.to_act]}}

(* ------------------------------------------------------------------ *)
(* State                                                               *)
(* ------------------------------------------------------------------ *)
VARIABLES
    run,      \* "engine": a hand played on the Engine; "tree": the abstract logic
    args,     \* the arguments new_hand was called with
    state,    \* the engine's State
    rng,      \* Engine::rng_, as the draws still to come
    returned, \* what the last apply_action call returned: "true", "false", or
              \* "none" before the first call
    ab,       \* the BettingAbstraction
    trans,    \* the last Transition; trans.state is the current TreeState
    ctx,      \* the BuildContext of a running TreeBuilder::build
    calls,    \* the builder's calls that have not returned, innermost last
    outcome,  \* of build: "building", "returned", "thrown"; "none" in other runs
    hands,    \* the cards handed to the evaluator
    score,    \* what the evaluator returned for them; << >> before it ran
    request,  \* the last request the HTTP server read
    response, \* and its answer to it
    game,     \* the browser UI's game object: state, aiTimer, busy
    human,    \* the value of the UI's human-player select
    buttons,  \* the indexes of the action buttons in the page
    flows,    \* the UI's async calls suspended at an await of a request
    timers,   \* the ids of the browser's pending timeouts
    clicks    \* how many user events the page has had

Returned(b) == IF b THEN "true" ELSE "false"

vars ==
    <<run, args, state, rng, returned, ab, trans, ctx, calls, outcome,
      hands, score, request, response, game, human, buttons, flows, timers, clicks>>

\* No request has been read.
HttpRequest0 ==
    [has_index |-> FALSE, negative |-> FALSE, digits |-> << >>, fraction |-> << >>,
     body |-> << >>]

HttpResponse0 == [status |-> 0, body |-> ""]

\* Nothing is being evaluated and no request is served.
NoEval ==
    /\ hands = << >>
    /\ score = << >>

NoHttp ==
    /\ request = HttpRequest0
    /\ response = HttpResponse0

\* game.state before the first state has been fetched (null).
NoState == [street |-> -1, to_act |-> -1]

\* const game = { api: null, state: null, aiTimer: null, busy: false }; a timer
\* id is a positive number, 0 stands for null.
Game0 == [state |-> NoState, aiTimer |-> 0, busy |-> FALSE]

\* No page is open.
NoUi ==
    /\ game = Game0
    /\ human = 0
    /\ buttons = {}
    /\ flows = << >>
    /\ timers = {}
    /\ clicks = 0

\* No build is running.
NoBuild ==
    /\ ctx = BuildContext0(0)
    /\ calls = << >>
    /\ outcome = "none"

EngineInit(a, stream) ==
    LET h == new_hand(stream, a.starting_stack, a.small_blind, a.big_blind)
    IN  /\ run = "engine"
        /\ args = a
        /\ state = h.state
        /\ rng = h.rng
        /\ returned = "none"
        /\ ab = DefaultAbstraction
        /\ trans = Transition0(TreeState0)
        /\ NoBuild
        /\ NoEval
        /\ NoHttp
        /\ NoUi

TreeInit(b) ==
    /\ run = "tree"
    /\ ab = b
    /\ trans = Transition0(initial_state(b))
    /\ args = DefaultArgs
    /\ state = State0
    /\ rng = << >>
    /\ returned = "none"
    /\ NoBuild
    /\ NoEval
    /\ NoHttp
    /\ NoUi

Init ==
    \/ \E a \in {TestArgs}, stream \in Streams : EngineInit(a, stream)
    \/ \E b \in TestAbstractions : TreeInit(b)

\* The drivers' step: an action taken from legal_actions(state) is applied.
ApplyLegal ==
    /\ run = "engine"
    /\ Len(state.history) < GuardLimit
    /\ \E i \in 1..Len(legal_actions(state)) :
          LET r == apply_action(state, rng, legal_actions(state)[i])
          IN  /\ state' = r.state
              /\ rng' = r.rng
              /\ returned' = Returned(r.ok)
    /\ UNCHANGED <<run, args, ab, trans, ctx, calls, outcome,
                hands, score, request, response,
                game, human, buttons, flows, timers, clicks>>

\* apply_action called with some other request.
ApplyRequest ==
    /\ run = "engine"
    /\ \E action \in Requests(state) :
          LET r == apply_action(state, rng, action)
          IN  /\ state' = r.state
              /\ rng' = r.rng
              /\ returned' = Returned(r.ok)
    /\ UNCHANGED <<run, args, ab, trans, ctx, calls, outcome,
                hands, score, request, response,
                game, human, buttons, flows, timers, clicks>>

\* The tree builder's step: every legal action of a decision state is applied.
TreeStep ==
    /\ run = "tree"
    /\ \E i \in 1..Len(detail_legal_actions(trans.state, ab)) :
          trans' = detail_apply_action(trans.state, detail_legal_actions(trans.state, ab)[i])
    /\ UNCHANGED <<run, args, state, rng, returned, ab, ctx, calls, outcome,
                hands, score, request, response,
                game, human, buttons, flows, timers, clicks>>

Next == ApplyLegal \/ ApplyRequest \/ TreeStep

Spec == Init /\ [][Next]_vars

\* The repository's own runs: the simulation driver playing new_hand(1000, 5, 10)
\* with legal actions only, and the two abstractions it builds trees from.
InitDefaults ==
    \/ EngineInit(DefaultArgs, StreamP0)
    \/ \E b \in {DefaultAbstraction, SolveAbstraction} : TreeInit(b)

NextDriver == ApplyLegal \/ TreeStep

SpecDefaults == InitDefaults /\ [][NextDriver]_vars

\* TreeBuilder(b).build(max_nodes) is entered: the context is fresh and
\* build_decision_or_terminal(initial_state(b)) is about to be called.
BuildInit(b, max_nodes) ==
    /\ run = "build"
    /\ ab = b
    /\ ctx = BuildContext0(max_nodes)
    /\ calls = <<Frame("build", -1, initial_state(b), << >>)>>
    /\ outcome = "building"
    /\ trans = Transition0(initial_state(b))
    /\ args = DefaultArgs
    /\ state = State0
    /\ rng = << >>
    /\ returned = "none"
    /\ NoEval
    /\ NoHttp
    /\ NoUi

\* The innermost call calls build_terminal, build_chance or
\* build_decision_or_terminal. A key found in memo returns the cached id to the
\* caller at once. Otherwise the node is made (make_node throws when the budget
\* is used up, which ends build) and memoised; build_terminal then returns its
\* id, the other two go on as the new innermost call.
BuildCall ==
    /\ run = "build" /\ outcome = "building"
    /\ calls # << >>
    /\ ~calls[Len(calls)].done
    /\ LET f == calls[Len(calls)]
           c == NextCall(f)
           key == CallKey(c)
       IN  IF key \in DOMAIN ctx.memo
           THEN LET d == Deliver(f, ctx, ctx.memo[key])
                IN  /\ ctx' = d.ctx
                    /\ calls' = ReplaceTop(calls, d.frame)
                    /\ outcome' = outcome
           ELSE LET made == make_node(ctx, NewNode(c, Len(ctx.tree.nodes)))
                    memoised == [made.ctx EXCEPT !.memo = Emplace(@, key, made.id)]
                IN  IF made.thrown
                    THEN /\ outcome' = "thrown"
                         /\ calls' = << >>
                         /\ ctx' = ctx
                    ELSE IF c.fn = "terminal"
                    THEN LET d == Deliver(f, memoised, made.id)
                         IN  /\ ctx' = d.ctx
                             /\ calls' = ReplaceTop(calls, d.frame)
                             /\ outcome' = outcome
                    ELSE /\ ctx' = memoised
                         /\ calls' = Append(calls,
                               Frame(c.fn, made.id, c.s,
                                     IF c.fn = "decision"
                                     THEN detail_legal_actions(c.s, ab) ELSE << >>))
                         /\ outcome' = outcome
    /\ UNCHANGED <<run, args, state, rng, returned, ab, trans,
                hands, score, request, response,
                game, human, buttons, flows, timers, clicks>>

\* build_chance or build_decision_or_terminal returns its node's id to its caller.
BuildReturn ==
    /\ run = "build" /\ outcome = "building"
    /\ Len(calls) >= 2
    /\ calls[Len(calls)].done
    /\ LET f == calls[Len(calls)]
           rest == SubSeq(calls, 1, Len(calls) - 1)
           d == Deliver(rest[Len(rest)], ctx, f.id)
       IN  /\ ctx' = d.ctx
           /\ calls' = ReplaceTop(rest, d.frame)
    /\ UNCHANGED <<run, args, state, rng, returned, ab, trans, outcome,
                hands, score, request, response,
                game, human, buttons, flows, timers, clicks>>

\* TreeBuilder::build returns the tree.
BuildDone ==
    /\ run = "build" /\ outcome = "building"
    /\ Len(calls) = 1
    /\ calls[1].done
    /\ calls' = << >>
    /\ outcome' = "returned"
    /\ UNCHANGED <<run, args, state, rng, returned, ab, trans, ctx,
                hands, score, request, response,
                game, human, buttons, flows, timers, clicks>>

NextBuild == BuildCall \/ BuildReturn \/ BuildDone

\* TreeBuilder::build as one operation: the whole expansion, then the tree is
\* returned, or the exception of make_node leaves build.
Build ==
    /\ run = "build" /\ outcome = "building"
    /\ Len(calls) = 1 /\ ~calls[1].done
    /\ LET r == build_call(ctx, NextCall(calls[1]), ab)
       IN  IF r.thrown
           THEN /\ outcome' = "thrown"
                /\ ctx' = r.ctx
           ELSE /\ outcome' = "returned"
                /\ ctx' = Deliver(calls[1], r.ctx, r.id).ctx
    /\ calls' = << >>
    /\ UNCHANGED <<run, args, state, rng, returned, ab, trans,
                hands, score, request, response,
                game, human, buttons, flows, timers, clicks>>

\* Trees of the small abstractions, built under each budget.
InitBuild == \E b \in TestAbstractions, max_nodes \in Budgets : BuildInit(b, max_nodes)

SpecBuild == InitBuild /\ [][NextBuild]_vars

\* Whole builds: solve_main's build(300000) of its abstraction, and the small
\* abstractions under every budget up to SmallBudget.
InitSolve ==
    \/ BuildInit(SolveAbstraction, SolveBudget)
    \/ \E b \in TestAbstractions, max_nodes \in 0..SmallBudget : BuildInit(b, max_nodes)

SpecSolve == InitSolve /\ [][Build]_vars

\* The stepwise build as a running program: build is sequential code that never
\* waits, so its next step is always taken. This is weak fairness of NextBuild,
\* WF_vars(NextBuild), written out with what enables NextBuild: a build that
\* has neither returned nor thrown.
SpecBuildLive ==
    /\ InitBuild
    /\ [][NextBuild]_vars
    /\ ([]<>(outcome # "building") \/ []<><<NextBuild>>_vars)

(* ------------------------------------------------------------------ *)
(* The evaluator on its own                                            *)
(* ------------------------------------------------------------------ *)
\* The card of a rank (2..14) and a suit (0..3): card = 13 * suit + rank - 2.
CardOf(rank, suit) == 13 * suit + rank - 2

HandOf(ranks, suits) == [i \in 1..5 |-> CardOf(ranks[i], suits[i])]

\* Five cards of four suits, and five cards of one suit.
Offsuit == <<0, 1, 2, 3, 0>>
Suited == <<0, 0, 0, 0, 0>>

\* The weakest and the strongest hand of each category without a flush (equal
\* ranks stand together, so the offsuit cards are distinct), with three more
\* quads and a middle straight.
OffsuitRanks ==
    { <<7, 5, 4, 3, 2>>, <<14, 13, 12, 11, 9>>,
      <<2, 2, 3, 4, 5>>, <<14, 14, 13, 12, 11>>,
      <<3, 3, 2, 2, 4>>, <<14, 14, 13, 13, 12>>,
      <<2, 2, 2, 3, 4>>, <<14, 14, 14, 13, 12>>,
      <<14, 2, 3, 4, 5>>, <<6, 7, 8, 9, 10>>, <<10, 11, 12, 13, 14>>,
      <<2, 2, 2, 3, 3>>, <<14, 14, 14, 13, 13>>,
      <<2, 2, 2, 2, 3>>, <<2, 2, 2, 2, 14>>, <<14, 14, 14, 14, 2>>,
      <<14, 14, 14, 14, 12>>, <<14, 14, 14, 14, 13>> }

\* The weakest and the strongest flush and straight flush.
SuitedRanks ==
    { <<7, 5, 4, 3, 2>>, <<14, 13, 12, 11, 9>>,
      <<14, 2, 3, 4, 5>>, <<10, 11, 12, 13, 14>> }

FiveCardHands ==
    {HandOf(r, Offsuit) : r \in OffsuitRanks} \cup {HandOf(r, Suited) : r \in SuitedRanks}

\* The orders five cards can be handed over in.
Permutations5 == {p \in [1..5 -> 1..5] : \A i, j \in 1..5 : p[i] = p[j] => i = j}

Permuted(cards, p) == [i \in 1..Len(cards) |-> cards[p[i]]]

\* Ten to ace and the nine of spades, two more aces and a king.
EvalDeck == {7, 8, 9, 10, 11, 12, 24, 25, 38}

RECURSIVE AscSeq(_)
\* The elements of a set of integers, in ascending order.
AscSeq(S) == IF S = {} THEN << >> ELSE LET m == SetMin(S) IN <<m>> \o AscSeq(S \ {m})

\* Hole cards and board of a deal whose seven cards are handed over in order.
DealOf(seven) == <<SubSeq(seven, 1, 2), SubSeq(seven, 3, 7)>>

\* Every seven cards of EvalDeck, lowest first and highest first, and two deals
\* that make no more than king high and a pair of threes.
SevenCardDeals ==
    {DealOf(AscSeq(S)) : S \in {T \in SUBSET EvalDeck : Cardinality(T) = 7}}
    \cup {DealOf(DescSeq(S)) : S \in {T \in SUBSET EvalDeck : Cardinality(T) = 7}}
    \cup { << <<0, 14>>, <<29, 44, 9, 24, 33>> >>, << <<1, 14>>, <<29, 44, 9, 24, 33>> >> }

EvalInit(d) ==
    /\ run = "eval"
    /\ hands = d
    /\ score = << >>
    /\ args = DefaultArgs
    /\ state = State0
    /\ rng = << >>
    /\ returned = "none"
    /\ ab = DefaultAbstraction
    /\ trans = Transition0(TreeState0)
    /\ NoBuild
    /\ NoHttp
    /\ NoUi

\* evaluate_5cards is called on each of two hands.
Evaluate5 ==
    /\ run = "eval" /\ score = << >>
    /\ Len(hands[1]) = 5
    /\ score' = <<evaluate_5cards(hands[1]), evaluate_5cards(hands[2])>>
    /\ UNCHANGED <<run, args, state, rng, returned, ab, trans, ctx, calls, outcome,
                   hands, request, response,
                   game, human, buttons, flows, timers, clicks>>

\* evaluate_7card is called on hole cards and a full board.
Evaluate7 ==
    /\ run = "eval" /\ score = << >>
    /\ Len(hands[1]) = 2
    /\ score' = <<evaluate_7card(hands[1], hands[2])>>
    /\ UNCHANGED <<run, args, state, rng, returned, ab, trans, ctx, calls, outcome,
                   hands, request, response,
                   game, human, buttons, flows, timers, clicks>>

NextEval == Evaluate5 \/ Evaluate7

\* Two five-card hands, a hand and the same cards in another order, or a deal.
InitEval ==
    \/ \E h1 \in FiveCardHands, h2 \in FiveCardHands : EvalInit(<<h1, h2>>)
    \/ \E h \in FiveCardHands, p \in Permutations5 : EvalInit(<<h, Permuted(h, p)>>)
    \/ \E d \in SevenCardDeals : EvalInit(d)

SpecEval == InitEval /\ [][NextEval]_vars

(* ------------------------------------------------------------------ *)
(* HTTP adapter (api_server.cpp): POST /apply_action                   *)
(* ------------------------------------------------------------------ *)
\* A string is the sequence of its characters; positions count from 0 as in C++.
CharAt(body, i) == body[i + 1]

DigitChars == <<"0", "1", "2", "3", "4", "5", "6", "7", "8", "9">>

IsDigit(c) == \E d \in 0..9 : DigitChars[d + 1] = c

\* body[i] - '0'
DigitValue(c) == CHOOSE d \in 0..9 : DigitChars[d + 1] = c

\* body.find(needle, from): the first position at or after `from` where needle
\* stands, -1 for npos.
Find(body, needle, from) ==
    LET hits == {i \in from..(Len(body) - Len(needle)) :
                    \A j \in 1..Len(needle) : body[i + j] = needle[j]}
    IN  IF hits = {} THEN -1 ELSE SetMin(hits)

\* val * 10 + digit in a 32-bit int that wraps around, computed on two 16-bit
\* halves of the two's complement of val.
MulAdd32(val, digit) ==
    LET high == IF val >= 0 THEN val \div 65536
                ELSE ((val + 2147483647 + 1) \div 65536) + 32768
        low == IF val >= 0 THEN val % 65536 ELSE (val + 2147483647 + 1) % 65536
        low10 == low * 10 + digit
        high10 == (high * 10 + (low10 \div 65536)) % 65536
    IN  IF high10 < 32768 THEN high10 * 65536 + (low10 % 65536)
        ELSE (high10 - 65536) * 65536 + (low10 % 65536)

\* val * 10 + digit leaves the range of int.
Overflows32(val, digit) ==
    \/ val > 214748364
    \/ val = 214748364 /\ digit > 7
    \/ val < -214748364

RECURSIVE SkipBlanks(_, _)
\* while (i < body.size() && (body[i] == ' ' || body[i] == '\t')) ++i;
SkipBlanks(body, i) ==
    IF i < Len(body) /\ CharAt(body, i) \in {" ", "\t"} THEN SkipBlanks(body, i + 1) ELSE i

RECURSIVE ReadDigits(_, _, _)
\* The loop val = val * 10 + (body[i] - '0') from position i on; acc is val and
\* whether a signed overflow has happened.
ReadDigits(body, i, acc) ==
    IF i < Len(body) /\ IsDigit(CharAt(body, i))
    THEN LET d == DigitValue(CharAt(body, i))
         IN  ReadDigits(body, i + 1,
                        [val |-> MulAdd32(acc.val, d),
                         overflow |-> acc.overflow \/ Overflows32(acc.val, d)])
    ELSE acc

IndexKey == <<"\"", "i", "n", "d", "e", "x", "\"">>

\* parse_index_field: [val, overflow]; val is the value returned when int
\* arithmetic wraps, overflow tells that the loop overflowed a signed int.
parse_index_field(body) ==
    LET none == [val |-> -1, overflow |-> FALSE]
        key == Find(body, IndexKey, 0)
        colon == IF key = -1 THEN -1 ELSE Find(body, <<":">>, key)
        start == SkipBlanks(body, colon + 1)
        neg == start < Len(body) /\ CharAt(body, start) = "-"
        first == IF neg THEN start + 1 ELSE start
        read == ReadDigits(body, first, [val |-> 0, overflow |-> FALSE])
    IN  IF key = -1 \/ colon = -1 THEN none
        ELSE IF first >= Len(body) \/ ~IsDigit(CharAt(body, first)) THEN none
        ELSE [val |-> IF neg THEN 0 - read.val ELSE read.val, overflow |-> read.overflow]

\* JSON.stringify({ index }) of the browser client: the number in decimal, with
\* its sign and its fraction if it has one; {} when index is undefined.
Stringify(has_index, negative, digits, fraction) ==
    IF ~has_index THEN <<"{", "}">>
    ELSE <<"{">> \o IndexKey \o <<":">>
         \o (IF negative THEN <<"-">> ELSE << >>)
         \o [i \in 1..Len(digits) |-> DigitChars[digits[i] + 1]]
         \o (IF fraction = << >> THEN << >>
             ELSE <<".">> \o [i \in 1..Len(fraction) |-> DigitChars[fraction[i] + 1]])
         \o <<"}">>

\* The request whose body carries the given index.
IndexRequest(has_index, negative, digits, fraction) ==
    [has_index |-> has_index, negative |-> negative, digits |-> digits,
     fraction |-> fraction, body |-> Stringify(has_index, negative, digits, fraction)]

RECURSIVE DecimalDigits(_)
\* The decimal digits of a natural number, most significant first.
DecimalDigits(n) == IF n < 10 THEN <<n>> ELSE Append(DecimalDigits(n \div 10), n % 10)

\* The largest of the small indexes a client sends.
MaxIndex == 1

\* 2^32, in decimal.
TwoTo32 == <<4, 2, 9, 4, 9, 6, 7, 2, 9, 6>>

\* What clients post: the indexes 0..MaxIndex, 9 (more than any state offers),
\* -1, 1.5, 2^32, and a body without index.
ClientRequests ==
    {IndexRequest(TRUE, FALSE, DecimalDigits(i), << >>) : i \in 0..MaxIndex}
    \cup { IndexRequest(TRUE, FALSE, <<9>>, << >>),
           IndexRequest(TRUE, TRUE, <<1>>, << >>),
           IndexRequest(TRUE, FALSE, <<1>>, <<5>>),
           IndexRequest(TRUE, FALSE, TwoTo32, << >>),
           IndexRequest(FALSE, FALSE, << >>, << >>) }

InvalidIndex == [status |-> 400, body |-> "{\"ok\":false,\"error\":\"invalid index\"}"]

OkResponse(ok) == [status |-> 200, body |-> IF ok THEN "{\"ok\":true}" ELSE "{\"ok\":false}"]

\* The server process was ended by a trapped signed overflow; nothing was sent.
Aborted == [status |-> -1, body |-> ""]

\* main of api_server: Engine engine(1337); state = engine.new_hand().
HttpInit(stream) ==
    LET h == new_hand(stream, DefaultStack, DefaultSmallBlind, DefaultBigBlind)
    IN  /\ run = "http"
        /\ args = DefaultArgs
        /\ state = h.state
        /\ rng = h.rng
        /\ returned = "none"
        /\ ab = DefaultAbstraction
        /\ trans = Transition0(TreeState0)
        /\ NoBuild
        /\ NoEval
        /\ NoHttp
        /\ NoUi

\* POST /apply_action. The signed overflow in parse_index_field is undefined
\* behaviour: the build either wraps around (val is then what is returned) or
\* traps, which ends the server.
PostApplyAction ==
    /\ run = "http"
    /\ response # Aborted
    /\ \E q \in ClientRequests :
          LET parsed == parse_index_field(q.body)
              index == parsed.val
              legals == legal_actions(state)
          IN  /\ request' = q
              /\ \/ /\ index < 0 \/ index >= Len(legals)
                    /\ response' = InvalidIndex
                    /\ UNCHANGED <<state, rng, returned>>
                 \/ /\ ~(index < 0 \/ index >= Len(legals))
                    /\ LET r == apply_action(state, rng, legals[index + 1])
                       IN  /\ state' = r.state
                           /\ rng' = r.rng
                           /\ returned' = Returned(r.ok)
                           /\ response' = OkResponse(r.ok)
                 \/ /\ parsed.overflow
                    /\ response' = Aborted
                    /\ UNCHANGED <<state, rng, returned>>
    /\ UNCHANGED <<run, args, ab, trans, ctx, calls, outcome, hands, score,
                game, human, buttons, flows, timers, clicks>>

NextHttp == PostApplyAction

InitHttp == HttpInit(StreamP0)

SpecHttp == InitHttp /\ [][NextHttp]_vars

(* ------------------------------------------------------------------ *)
(* The browser UI (app script, engine-api.js) talking to api_server    *)
(* ------------------------------------------------------------------ *)
\* How many user events (clicks and changes of the select) a page gets.
MaxClicks == 2

\* How many async calls of the page are suspended at a time: an event that
\* would start one more comes later.
MaxFlows == 2

\* The largest index of the action buttons the user clicks: the first three are
\* Fold, Call and the smallest Raise, or Check and the two smallest Bets.
MaxButton == 2

\* What the app script reads of a state it fetched: street and to_act.
Snapshot(s) == [street |-> s.street, to_act |-> s.to_act]

\* The requests that change the server's state.
StateChanging == {"/apply_action", "/apply_random_action", "/new_hand"}

\* No response yet: the request is on its way or waits to be accepted.
Pending == [status |-> 0, state |-> NoState, count |-> 0]

\* An async call of function fn suspended at the await of its request to path.
\* index is the idx of the clicked button, st the state render was called for.
Flow(fn, path, index, st) ==
    [fn |-> fn, path |-> path, index |-> index, st |-> st, resp |-> Pending]

\* The server's answer to one request: the engine state it leaves, the draws
\* left, and the response (status; the state of /new_hand and /state; the
\* number of actions of /legal_actions).
Served(s, r, status, snap, count) ==
    [state |-> s, rng |-> r, resp |-> [status |-> status, state |-> snap, count |-> count]]

\* The index POST /apply_action reads from the body JSON.stringify({ index }).
PostedIndex(idx) ==
    parse_index_field(Stringify(TRUE, FALSE, DecimalDigits(idx), << >>)).val

\* The server's routes for the requests the page sends, legals being
\* legal_actions(s) and pick what dist(rng_) of random_legal_action returns.
\*   POST /new_hand: state = engine.new_hand().
\*   POST /apply_action: 400 for an index outside legals, else legals[index] is
\*     applied.
\*   POST /apply_random_action: 400 when legals is empty, else legals[pick] is
\*     applied.
\*   GET /state, /legal_actions, /terminal_result: the state is left as it is.
Route(s, r, f, legals, pick) ==
    LET index == IF f.path = "/apply_action" THEN PostedIndex(f.index)
                 ELSE IF legals = << >> THEN -1 ELSE pick
    IN  IF f.path = "/new_hand"
        THEN LET h == new_hand(StreamP0, DefaultStack, DefaultSmallBlind, DefaultBigBlind)
             IN  Served(h.state, h.rng, 200, Snapshot(h.state), 0)
        ELSE IF f.path \in {"/apply_action", "/apply_random_action"}
        THEN IF index < 0 \/ index >= Len(legals)
             THEN Served(s, r, 400, NoState, 0)
             ELSE LET a == apply_action(s, r, legals[index + 1])
                  IN  Served(a.state, a.rng, 200, NoState, 0)
        ELSE IF f.path = "/state" THEN Served(s, r, 200, Snapshot(s), 0)
        ELSE IF f.path = "/legal_actions" THEN Served(s, r, 200, NoState, Len(legals))
        ELSE Served(s, r, 200, NoState, 0)

\* The largest index random_legal_action is taken to draw.
MaxPick == 1

\* What dist(rng_) of random_legal_action returns for the request of flow f: an
\* index of legals, up to MaxPick.
RandomPicks(legals, f) ==
    IF f.path # "/apply_random_action" \/ legals = << >> THEN {0}
    ELSE 0..Min2(MaxPick, Len(legals) - 1)

\* scheduleAiIfNeeded: the game object and the pending timers it leaves; a new
\* timeout gets the smallest id not in use.
scheduleAiIfNeeded(g, pending) ==
    IF g.state = NoState \/ g.state.street = Terminal THEN [game |-> g, timers |-> pending]
    ELSE IF g.state.to_act = human THEN [game |-> g, timers |-> pending]
    ELSE IF g.aiTimer # 0 THEN [game |-> g, timers |-> pending]
    ELSE LET id == CHOOSE t \in 1..(Cardinality(pending) + 1) : t \notin pending
         IN  [game |-> [g EXCEPT !.aiTimer = id], timers |-> pending \cup {id}]

\* flows without its i-th element.
Dropped(i) == SubSeq(flows, 1, i - 1) \o SubSeq(flows, i + 1, Len(flows))

\* flows with f in place of its i-th element.
Replaced(i, f) == [flows EXCEPT ![i] = f]

\* startNewHand up to its await: a pending timer is cleared, /new_hand is sent.
startNewHand ==
    /\ Len(flows) < MaxFlows
    /\ timers' = IF game.aiTimer # 0 THEN timers \ {game.aiTimer} ELSE timers
    /\ game' = [game EXCEPT !.aiTimer = 0]
    /\ flows' = Append(flows, Flow("startNewHand", "/new_hand", -1, NoState))
    /\ UNCHANGED buttons

\* The page has loaded: boot has its api, /health has answered, the listeners
\* are registered and boot's startNewHand awaits /new_hand. The server has
\* dealt its first hand.
UiInit(stream, h) ==
    LET first == new_hand(stream, DefaultStack, DefaultSmallBlind, DefaultBigBlind)
    IN  /\ run = "ui"
        /\ args = DefaultArgs
        /\ state = first.state
        /\ rng = first.rng
        /\ returned = "none"
        /\ ab = DefaultAbstraction
        /\ trans = Transition0(TreeState0)
        /\ NoBuild
        /\ NoEval
        /\ NoHttp
        /\ game = Game0
        /\ human = h
        /\ buttons = {}
        /\ flows = <<Flow("startNewHand", "/new_hand", -1, NoState)>>
        /\ timers = {}
        /\ clicks = 0

\* A click on New Hand or on the next-hand button.
ClickNewHand ==
    /\ run = "ui"
    /\ clicks < MaxClicks
    /\ clicks' = clicks + 1
    /\ startNewHand
    /\ UNCHANGED <<run, args, state, rng, returned, ab, trans, ctx, calls, outcome,
                hands, score, request, response, human>>

\* The user picks the other player in the select: its change listener starts a
\* new hand.
ChangeHuman ==
    /\ run = "ui"
    /\ clicks < MaxClicks
    /\ clicks' = clicks + 1
    /\ human' = 1 - human
    /\ startNewHand
    /\ UNCHANGED <<run, args, state, rng, returned, ab, trans, ctx, calls, outcome,
                hands, score, request, response>>

\* A click on the action button made for index idx (one of the first buttons,
\* up to MaxButton): nothing while busy, else busy is set and /apply_action is
\* sent.
ClickAction ==
    /\ run = "ui"
    /\ clicks < MaxClicks
    /\ clicks' = clicks + 1
    /\ \E idx \in buttons \cap 0..MaxButton :
          IF game.busy
          THEN UNCHANGED <<game, flows>>
          ELSE /\ Len(flows) < MaxFlows
               /\ game' = [game EXCEPT !.busy = TRUE]
               /\ flows' = Append(flows, Flow("click", "/apply_action", idx, NoState))
    /\ UNCHANGED <<run, args, state, rng, returned, ab, trans, ctx, calls, outcome,
                hands, score, request, response, human, buttons, timers>>

\* A pending timeout fires: aiTimer is reset; while busy the timer is set up
\* again, else busy is set and /apply_random_action is sent.
TimerFires ==
    /\ run = "ui"
    /\ \E id \in timers :
          LET g == [game EXCEPT !.aiTimer = 0]
              again == scheduleAiIfNeeded(g, timers \ {id})
          IN  IF game.busy
              THEN /\ game' = again.game
                   /\ timers' = again.timers
                   /\ UNCHANGED flows
              ELSE /\ Len(flows) < MaxFlows
                   /\ game' = [g EXCEPT !.busy = TRUE]
                   /\ timers' = timers \ {id}
                   /\ flows' = Append(flows, Flow("aiTimer", "/apply_random_action", -1, NoState))
    /\ UNCHANGED <<run, args, state, rng, returned, ab, trans, ctx, calls, outcome,
                hands, score, request, response, human, buttons, clicks>>

\* The server accepts one of the waiting connections, handles its request and
\* answers.
Serve ==
    /\ run = "ui"
    /\ \E i \in 1..Len(flows) :
          /\ flows[i].resp = Pending
          /\ LET legals == legal_actions(state)
             IN  \E pick \in RandomPicks(legals, flows[i]) :
                    LET out == Route(state, rng, flows[i], legals, pick)
                    IN  /\ state' = out.state
                        /\ rng' = out.rng
                        /\ flows' = Replaced(i, [flows[i] EXCEPT !.resp = out.resp])
    /\ UNCHANGED <<run, args, returned, ab, trans, ctx, calls, outcome,
                hands, score, request, response, game, human, buttons, timers, clicks>>

\* render up to its first await, called with game.state set to snap: the flow
\* goes on as render awaiting /terminal_result.
RenderCall(i, snap) == Replaced(i, Flow("render", "/terminal_result", -1, snap))

\* The response of flow i has arrived and the call runs on to its next await or
\* to its end.
\*   startNewHand: game.state is the new hand; render.
\*   click handler and timer callback after their action request: an error
\*     status throws, busy is reset and the call ends; else /state is sent.
\*   click handler and timer callback after /state: game.state is set, busy is
\*     reset; render.
\*   render after /terminal_result: renderActionButtons clears the buttons; a
\*     finished hand or the opponent's turn ends it, else /legal_actions is sent.
\*   render after /legal_actions: one button per action.
\*   At its end render calls scheduleAiIfNeeded.
Resume ==
    /\ run = "ui"
    /\ \E i \in 1..Len(flows) :
          LET f == flows[i]
              sched == scheduleAiIfNeeded(game, timers)
          IN  /\ f.resp # Pending
              /\ IF f.path = "/new_hand"
                 THEN /\ game' = [game EXCEPT !.state = f.resp.state]
                      /\ flows' = RenderCall(i, f.resp.state)
                      /\ UNCHANGED <<buttons, timers>>
                 ELSE IF f.path \in {"/apply_action", "/apply_random_action"}
                 THEN IF f.resp.status # 200
                      THEN /\ game' = [game EXCEPT !.busy = FALSE]
                           /\ flows' = Dropped(i)
                           /\ UNCHANGED <<buttons, timers>>
                      ELSE /\ flows' = Replaced(i, Flow(f.fn, "/state", f.index, NoState))
                           /\ UNCHANGED <<game, buttons, timers>>
                 ELSE IF f.path = "/state"
                 THEN /\ game' = [game EXCEPT !.state = f.resp.state, !.busy = FALSE]
                      /\ flows' = RenderCall(i, f.resp.state)
                      /\ UNCHANGED <<buttons, timers>>
                 ELSE IF f.path = "/terminal_result"
                 THEN /\ buttons' = {}
                      /\ IF f.st.street = Terminal \/ f.st.to_act # human
                         THEN /\ game' = sched.game
                              /\ timers' = sched.timers
                              /\ flows' = Dropped(i)
                         ELSE /\ flows' = Replaced(i, Flow("render", "/legal_actions", -1, f.st))
                              /\ UNCHANGED <<game, timers>>
                 ELSE /\ buttons' = buttons \cup 0..(f.resp.count - 1)
                      /\ game' = sched.game
                      /\ timers' = sched.timers
                      /\ flows' = Dropped(i)
    /\ UNCHANGED <<run, args, state, rng, returned, ab, trans, ctx, calls, outcome,
                hands, score, request, response, human, clicks>>

NextUi == ClickNewHand \/ ChangeHuman \/ ClickAction \/ TimerFires \/ Serve \/ Resume

\* The page as it opens, player 0 selected.
InitUi == UiInit(StreamP0, 0)

SpecUi == InitUi /\ [][NextUi]_vars

(* ------------------------------------------------------------------ *)
(* Properties                                                          *)
(* ------------------------------------------------------------------ *)
OnEngine == run = "engine"
OnTree == run = "tree"
OnBuild == run = "build"

\* The (player, type, amount) triples legal_actions(s) offers.
Offered(s) ==
    LET legals == legal_actions(s)
    IN  {<<legals[i].player, legals[i].type, legals[i].amount>> : i \in 1..Len(legals)}

Rejected(s, r) == [ok |-> FALSE, state |-> s, rng |-> r]

\* C1: apply_action returns false and leaves every field of the state (history
\* included) as it was for every action whose (player, type, amount) legal_actions
\* does not offer, and returns true for every action legal_actions offers.
C1_IllegalRejected ==
    OnEngine =>
        LET offered == Offered(state)
            legals == legal_actions(state)
        IN  /\ \A a \in Probes(state) \cup Requests(state) :
                  IF <<a.player, a.type, a.amount>> \in offered
                  THEN apply_action(state, rng, a).ok = TRUE
                  ELSE apply_action(state, rng, a) = Rejected(state, rng)
            /\ \A i \in 1..Len(legals) : apply_action(state, rng, legals[i]).ok = TRUE
            /\ (returned = "true" => state.history # << >>)

\* A request was rejected in the middle of a hand.
C1_Witness ==
    OnEngine /\ returned = "false" /\ state.street = Flop /\ Len(state.history) >= 2

\* C2: in every reachable engine State and TreeState, legal_actions is empty
\* exactly when the street is Terminal or Showdown.
C2_LegalEmptyIffOver ==
    /\ OnEngine =>
          ((legal_actions(state) = << >>) <=> (state.street \in {Terminal, Showdown}))
    /\ OnTree =>
          ((detail_legal_actions(trans.state, ab) = << >>)
              <=> (trans.state.street \in {Terminal, Showdown}))

\* A hand that went to the river and was closed there: nothing is offered any more.
C2_Witness ==
    /\ OnEngine /\ state.street = Terminal /\ ~state.folded[0] /\ ~state.folded[1]
    /\ state.stacks[0] > 0 /\ state.stacks[1] > 0
    /\ legal_actions(state) = << >>

\* C3: chip conservation: stacks[p] + committed_total[p] is the starting stack, for
\* both players, in every reachable engine State and TreeState.
C3_ChipConservation ==
    /\ OnEngine =>
          \A p \in Players :
              state.stacks[p] + state.committed_total[p] = args.starting_stack
    /\ OnTree =>
          \A p \in Players :
              trans.state.stacks[p] + trans.state.committed_total[p] = ab.starting_stack

\* Both players have put in chips beyond the blinds and play goes on.
C3_Witness ==
    /\ OnEngine /\ state.street = Turn
    /\ state.committed_total[0] > args.big_blind
    /\ state.committed_total[1] > args.big_blind
    /\ state.stacks[0] # state.stacks[1]

\* C4: pot == committed_total[0] + committed_total[1] in every reachable engine
\* State and TreeState.
C4_PotIsCommitted ==
    /\ OnEngine => state.pot = state.committed_total[0] + state.committed_total[1]
    /\ OnTree =>
          trans.state.pot = trans.state.committed_total[0] + trans.state.committed_total[1]

\* An abstract state on the flop with a bet made and not yet answered.
C4_Witness ==
    /\ OnTree /\ trans.state.street = Flop
    /\ trans.state.pot > 2 * ab.big_blind
    /\ trans.state.committed_total[0] # trans.state.committed_total[1]

\* C5: after new_hand / initial_state and after every transition,
\* bet_to_call == max(0, current_bet - committed_this_round[to_act]).
C5_BetToCall ==
    /\ OnEngine =>
          state.bet_to_call =
              Max2(0, state.current_bet - state.committed_this_round[state.to_act])
    /\ OnTree =>
          trans.state.bet_to_call =
              Max2(0, trans.state.current_bet
                        - trans.state.committed_this_round[trans.state.to_act])

\* Player 0 bet on the flop, player 1 raised, and player 0 faces the raise.
C5_Witness ==
    /\ OnEngine /\ state.street = Flop /\ state.to_act = 0
    /\ state.bet_to_call > 0 /\ state.committed_this_round[0] > 0

\* C6: in every reachable Terminal engine state terminal_payoff's chip_delta sums
\* to 0, whether the hand ended by a fold, a showdown win or a split.
C6_ZeroSum ==
    (OnEngine /\ state.street = Terminal) =>
        LET r == terminal_payoff(state)
        IN  r.is_terminal /\ r.chip_delta[0] + r.chip_delta[1] = 0

\* A split of an odd pot.
C6_Witness ==
    /\ OnEngine /\ state.street = Terminal
    /\ terminal_payoff(state).winner = -1
    /\ terminal_payoff(state).reason = "showdown"
    /\ state.pot % 2 = 1

\* C7: from new_hand(1000, 5, 10), whatever legal actions are chosen, the hand is
\* Terminal after at most 200 actions: no call is refused, a hand that is not over
\* has made fewer than 200 actions and offers a next one, and a hand that is over
\* ended by exactly one of fold and showdown.
C7_EndsWithinGuard ==
    OnEngine =>
        /\ returned # "false"
        /\ IF state.street = Terminal
           THEN /\ Len(state.history) <= GuardLimit
                /\ PayoffReason(state) \in {"fold", "showdown"}
                /\ (PayoffReason(state) = "fold") <=> (state.folded[0] \/ state.folded[1])
                /\ (PayoffReason(state) = "showdown") => (Len(state.board) = 5)
           ELSE /\ Len(state.history) < GuardLimit
                /\ legal_actions(state) # << >>

\* The longest hands of the default game: fifteen actions, ended at a showdown.
C7_Witness ==
    /\ OnEngine /\ state.street = Terminal /\ Len(state.history) >= 15
    /\ PayoffReason(state) = "showdown"

\* C8: Terminal is absorbing: from a Terminal engine state every apply_action call
\* returns false and street, pot, stacks, commitments, folded, board and history
\* stay as they are.
C8_TerminalAbsorbing ==
    [][(OnEngine /\ state.street = Terminal) =>
           /\ state' = state
           /\ rng' = rng
           /\ returned' = "false"
           /\ \A a \in Probes(state) :
                 apply_action(state, rng, a) = Rejected(state, rng)]_vars

\* A call made after the end of a hand, and refused.
C8_Witness ==
    OnEngine /\ state.street = Terminal /\ returned = "false" /\ state.folded[1]

\* C9: the big blind keeps its option: after new_hand, SB Call(5)
\* leaves the street at Preflop with player 1 to act and Check legal, and only BB's
\* Check moves the hand to the Flop (3 board cards, committed_this_round = [0,0],
\* current_bet = 0, to_act = 0, pot = 20).
C9_BigBlindOption ==
    LET limp == Action(0, Call, 5, 5, Preflop)
        option == Action(1, Check, 0, 0, Preflop)
    IN  /\ (OnEngine /\ state.history = <<limp>>) =>
              /\ state.street = Preflop
              /\ state.to_act = 1
              /\ <<1, Check, 0>> \in Offered(state)
        /\ (OnEngine /\ Len(state.history) >= 2 /\ SubSeq(state.history, 1, 2) = <<limp, option>>
              /\ Len(state.history) = 2) =>
              /\ state.street = Flop
              /\ Len(state.board) = 3
              /\ state.committed_this_round = [p \in Players |-> 0]
              /\ state.current_bet = 0
              /\ state.to_act = 0
              /\ state.pot = 20

\* C10: after new_hand, SB's all-in Raise(995) is followed by BB's
\* Call(990), which apply_action accepts; the hand is then Terminal with 5 board
\* cards, reason "showdown" and chip_delta [1000,-1000], [-1000,1000] or [0,0].
C10_AllInCalled ==
    LET shove == Action(0, Raise, 995, 5, Preflop)
        r == apply_action(state, rng, Action(1, Call, 990, 990, Preflop))
        res == terminal_payoff(r.state)
    IN  (OnEngine /\ state.history = <<shove>>) =>
            /\ r.ok = TRUE
            /\ r.state.street = Terminal
            /\ Len(r.state.board) = 5
            /\ res.reason = "showdown"
            /\ \/ res.chip_delta = [p \in Players |-> IF p = 0 THEN 1000 ELSE -1000]
               \/ res.chip_delta = [p \in Players |-> IF p = 0 THEN -1000 ELSE 1000]
               \/ res.chip_delta = [p \in Players |-> 0]

\* C11: whenever neither player has folded and a stack is empty, the hand is
\* Terminal with exactly 5 board cards and legal_actions is empty; no state that
\* is not Terminal has a player with stack 0.
C11_AllInIsTerminal ==
    OnEngine =>
        /\ AllInNow(state) =>
               /\ state.street = Terminal
               /\ Len(state.board) = 5
               /\ legal_actions(state) = << >>
        /\ state.street # Terminal => (state.stacks[0] > 0 /\ state.stacks[1] > 0)

\* An all-in on the flop accepted by apply_action: the hand is over with the turn
\* and river dealt.
C11_Witness ==
    /\ OnEngine /\ returned = "true" /\ state.street = Terminal
    /\ ~state.folded[0] /\ ~state.folded[1]
    /\ (state.stacks[0] = 0 \/ state.stacks[1] = 0)
    /\ Len(state.board) = 5
    /\ state.history[Len(state.history)].street = Flop

\* C12: when a hand ended by a fold, terminal_payoff reports reason "fold", the
\* player who did not fold as the winner, the folder's committed_total as the
\* winner's chip_delta and its negation as the folder's; new_hand followed by
\* the small blind's Fold gives winner 1 and chip_delta [-5, +5].
C12_FoldPayoff ==
    (OnEngine /\ state.street = Terminal /\ EndedByFold(state)) =>
        LET r == terminal_payoff(state)
            folder == IF state.folded[0] THEN 0 ELSE 1
        IN  /\ r.is_terminal
            /\ r.reason = "fold"
            /\ r.winner = 1 - folder
            /\ r.chip_delta[1 - folder] = state.committed_total[folder]
            /\ r.chip_delta[folder] = -state.committed_total[folder]
            /\ (state.history = <<Action(0, Fold, 0, 5, Preflop)>>) =>
                   /\ r.winner = 1
                   /\ r.chip_delta = [p \in Players |-> IF p = 0 THEN -5 ELSE 5]

\* The big blind folded after the flop, having put in more than its blind.
C12_Witness ==
    /\ OnEngine /\ state.street = Terminal /\ state.folded[1]
    /\ state.committed_total[1] > args.big_blind
    /\ Len(state.board) >= 3
    /\ terminal_payoff(state).winner = 0

\* C13: at a showdown with equal 7-card scores terminal_payoff reports winner -1
\* and splits the pot, player 0 getting the extra chip of an odd pot
\* (payout[0] = payout[1] + 1).
C13_OddChipToPlayer0 ==
    (OnEngine /\ state.street = Terminal /\ ~EndedByFold(state)
        /\ evaluate_7card(state.hole_cards[0], state.board)
              = evaluate_7card(state.hole_cards[1], state.board)) =>
        LET r == terminal_payoff(state)
            payout == [p \in Players |-> r.chip_delta[p] + state.committed_total[p]]
        IN  /\ r.winner = -1
            /\ payout[0] + payout[1] = state.pot
            /\ IF state.pot % 2 = 1 THEN payout[0] = payout[1] + 1
                                    ELSE payout[0] = payout[1]

\* C14: on a state whose street is not Terminal terminal_payoff returns
\* is_terminal = false, winner = -1, chip_delta = [0, 0] and an empty reason.
C14_NotTerminalZeroed ==
    (OnEngine /\ state.street # Terminal) =>
        terminal_payoff(state) =
            [is_terminal |-> FALSE, winner |-> -1,
             chip_delta |-> [p \in Players |-> 0], reason |-> ""]

\* A hand in the middle of the turn, chips committed by both players.
C14_Witness ==
    /\ OnEngine /\ state.street = Turn /\ state.bet_to_call > 0
    /\ ~terminal_payoff(state).is_terminal

\* The abstraction of the engine's own game: the hand's stack and blinds, the
\* sizes {0.5, 1.0, 2.0} on every street, all-in allowed, and a raise cap no hand
\* of at most GuardLimit actions can reach.
TwinAbstraction(a) ==
    [DefaultAbstraction EXCEPT !.starting_stack = a.starting_stack,
                               !.small_blind = a.small_blind,
                               !.big_blind = a.big_blind,
                               !.max_raises_per_street = GuardLimit,
                               !.allow_all_in = TRUE]

\* detail::apply_action run along the actions of an engine history, from
\* TreeState s, for as long as the abstract hand is not over.
RECURSIVE Replay(_, _)
Replay(s, history) ==
    IF history = << >> \/ s.street = Terminal THEN s
    ELSE Replay(detail_apply_action(s, Head(history)).state, Tail(history))

\* The (type, amount) pairs of a sequence of actions.
TypeAmounts(actions) == {<<actions[i].type, actions[i].amount>> : i \in 1..Len(actions)}

\* C15: the abstract TreeState logic follows the engine step for step: the same
\* legal action sequence run through both gives, at every state of the engine
\* that is not Terminal, the same street, pot, stacks, to_act, current_bet,
\* bet_to_call, last_bet_size, committed_this_round and committed_total, and the
\* same legal (type, amount) pairs.
C15_TwinAgrees ==
    (OnEngine /\ state.street # Terminal) =>
        LET twin == TwinAbstraction(args)
            t == Replay(initial_state(twin), state.history)
        IN  /\ t.street = state.street
            /\ t.pot = state.pot
            /\ t.stacks = state.stacks
            /\ t.to_act = state.to_act
            /\ t.current_bet = state.current_bet
            /\ t.bet_to_call = state.bet_to_call
            /\ t.last_bet_size = state.last_bet_size
            /\ t.committed_this_round = state.committed_this_round
            /\ t.committed_total = state.committed_total
            /\ TypeAmounts(detail_legal_actions(t, twin)) = TypeAmounts(legal_actions(state))

\* The nodes of the tree under construction, and node number id of it.
Nodes == ctx.tree.nodes
NodeAt(id) == ctx.tree.nodes[id + 1]

\* Every action of every Decision node has its child, every Chance node has its
\* child, and the root is set: nothing of the expansion is missing.
Complete ==
    /\ ctx.tree.root_id \in 0..(Len(Nodes) - 1)
    /\ \A i \in 1..Len(Nodes) :
          /\ Nodes[i].type = NodeDecision =>
                /\ Nodes[i].actions = detail_legal_actions(Nodes[i].state, ab)
                /\ Len(Nodes[i].children) = Len(Nodes[i].actions)
          /\ Nodes[i].type = NodeChance => Len(Nodes[i].children) = 1

\* C16: build(max_nodes) never holds more than max_nodes nodes; it throws only
\* when a node not yet in the tree is needed and max_nodes nodes exist already,
\* and a tree it returns is complete.
C16_NodeBudget ==
    /\ [](OnBuild =>
            /\ Len(Nodes) <= ctx.max_nodes
            /\ outcome = "returned" => Complete
            /\ outcome = "thrown" => Len(Nodes) = ctx.max_nodes)
    /\ [][(OnBuild /\ outcome' = "thrown" /\ outcome = "building") =>
             LET need == CallKey(NextCall(calls[Len(calls)]))
             IN  /\ Len(Nodes) = ctx.max_nodes
                 /\ \A i \in 1..Len(Nodes) : Nodes[i].key # need]_vars

\* A build that threw with its budget used up.
C16_Witness ==
    /\ OnBuild /\ outcome = "thrown" /\ ctx.max_nodes >= SmallBudget
    /\ Len(Nodes) = ctx.max_nodes

\* C17 as stated: at every point during and after build, nodes[i].id == i, the
\* root has id 0 and root_id == 0.
C17_RootIdAlwaysZero ==
    (OnBuild /\ Nodes # << >>) =>
        /\ \A i \in 1..Len(Nodes) : Nodes[i].id = i - 1
        /\ Nodes[1].id = 0
        /\ ctx.tree.root_id = 0

\* C17, amended: at every point during and after build, nodes[i].id == i and the
\* first node is the root's Decision node with id 0; root_id is -1 until
\* build_decision_or_terminal(root) has returned and 0 from then on, so 0 in the
\* tree build returns; a node's id, type, key and state are never rewritten, and
\* its actions and children only grow.
C17_IdsAndAppendOnly ==
    /\ [](OnBuild =>
            /\ \A i \in 1..Len(Nodes) : Nodes[i].id = i - 1
            /\ Nodes # << >> =>
                  /\ Nodes[1].id = 0
                  /\ Nodes[1].type = NodeDecision
                  /\ Nodes[1].state = initial_state(ab)
            /\ ctx.tree.root_id =
                  IF outcome = "returned" \/ (calls # << >> /\ calls[1].done)
                  THEN 0 ELSE -1)
    /\ [][OnBuild =>
             /\ Len(ctx'.tree.nodes) >= Len(Nodes)
             /\ \A i \in 1..Len(Nodes) :
                   LET old == Nodes[i]
                       new == ctx'.tree.nodes[i]
                   IN  /\ new.id = old.id
                       /\ new.type = old.type
                       /\ new.key = old.key
                       /\ new.state = old.state
                       /\ new.terminal = old.terminal
                       /\ Len(new.children) >= Len(old.children)
                       /\ SubSeq(new.children, 1, Len(old.children)) = old.children
                       /\ SubSeq(new.actions, 1, Len(old.actions)) = old.actions]_vars

\* A returned tree whose nodes got their children after later nodes were added.
C17_Witness ==
    /\ OnBuild /\ outcome = "returned" /\ ctx.tree.root_id = 0
    /\ Len(Nodes) > 100
    /\ Len(Nodes[1].children) >= 2

\* The NodeType of the node a call makes.
CallType(c) ==
    IF c.fn = "terminal" THEN NodeTerminal
    ELSE IF c.fn = "chance" THEN NodeChance ELSE NodeDecision

\* Node n is the node call c stands for: its kind (and terminal kind) and state.
IsNodeOf(n, c) ==
    /\ n.type = CallType(c)
    /\ n.state = c.s
    /\ c.fn = "terminal" => n.terminal.kind = c.kind

\* C18: in a returned tree each Decision node has as many children as actions,
\* at least one, children[k] being the node of the state actions[k] leads to;
\* each Chance node has exactly one child, the Decision node of the same state;
\* each Terminal node has no children; every child id is an index into nodes.
C18_TreeShape ==
    (OnBuild /\ outcome = "returned") =>
        \A i \in 1..Len(Nodes) :
            LET n == Nodes[i]
            IN  /\ \A k \in 1..Len(n.children) : n.children[k] \in 0..(Len(Nodes) - 1)
                /\ n.type = NodeDecision =>
                      /\ Len(n.actions) = Len(n.children)
                      /\ Len(n.children) >= 1
                      /\ \A k \in 1..Len(n.actions) :
                            /\ k <= Len(n.children)
                            /\ IsNodeOf(NodeAt(n.children[k]),
                                        NextCall([Frame("decision", n.id, n.state, n.actions)
                                                    EXCEPT !.k = k]))
                /\ n.type = NodeChance =>
                      /\ Len(n.children) = 1
                      /\ n.actions = << >>
                      /\ NodeAt(n.children[1]).type = NodeDecision
                      /\ NodeAt(n.children[1]).state = n.state
                      /\ n.state.street \in {Flop, Turn, River}
                /\ n.type = NodeTerminal =>
                      /\ n.children = << >>
                      /\ n.actions = << >>

\* A returned tree with nodes of all three kinds.
C18_Witness ==
    /\ OnBuild /\ outcome = "returned" /\ Len(Nodes) > 100
    /\ \E i \in 1..Len(Nodes) : Nodes[i].type = NodeChance /\ Len(Nodes[i].children) = 1
    /\ \E i \in 1..Len(Nodes) : Nodes[i].type = NodeTerminal
    /\ \E i \in 1..Len(Nodes) : Nodes[i].type = NodeDecision /\ Len(Nodes[i].children) >= 3

\* The id the caller f received from the call it made last.
ReceivedBy(f, c) ==
    IF f.fn = "build" THEN c.tree.root_id
    ELSE LET ch == c.tree.nodes[f.id + 1].children IN ch[Len(ch)]

\* C19: no two nodes have the same key; a call for a state that has a node of
\* its kind gets that node's id and adds no node, whichever action sequence led
\* to it, and a call for a state that has none gets a new node (or build throws):
\* states that differ in any field never share a node.
C19_Memoisation ==
    /\ [](OnBuild =>
            /\ Cardinality({Nodes[i].key : i \in 1..Len(Nodes)}) = Len(Nodes)
            /\ DOMAIN ctx.memo = {Nodes[i].key : i \in 1..Len(Nodes)}
            /\ \A i \in 1..Len(Nodes) : ctx.memo[Nodes[i].key] = Nodes[i].id)
    /\ [][(OnBuild /\ outcome = "building" /\ calls # << >> /\ ~calls[Len(calls)].done) =>
             LET f == calls[Len(calls)]
                 c == NextCall(f)
                 same == {i \in 1..Len(Nodes) : IsNodeOf(Nodes[i], c)}
             IN  IF same # {}
                 THEN /\ ctx'.tree.nodes = [ctx.tree.nodes EXCEPT ![f.id + 1] = ctx'.tree.nodes[f.id + 1]]
                      /\ \E i \in same : ReceivedBy(f, ctx') = Nodes[i].id
                 ELSE \/ outcome' = "thrown"
                      \/ /\ Len(ctx'.tree.nodes) = Len(Nodes) + 1
                         /\ IsNodeOf(ctx'.tree.nodes[Len(Nodes) + 1], c)]_vars

\* A returned tree in which some node is the child of two parents: the tree has
\* more edges than a tree of that many nodes could.
C19_Witness ==
    /\ OnBuild /\ outcome = "returned"
    /\ \E i, j \in 1..Len(Nodes) :
          /\ i < j
          /\ Nodes[i].type = NodeDecision /\ Nodes[j].type = NodeDecision
          /\ \E a \in 1..Len(Nodes[i].children), b \in 1..Len(Nodes[j].children) :
                /\ Nodes[i].children[a] = Nodes[j].children[b]
                /\ NodeAt(Nodes[i].children[a]).type = NodeChance

\* C20: with solve_main's abstraction build(300000) does not throw, and the tree
\* it returns has root_id >= 0 and holds a Decision node, a Chance node, a Fold
\* terminal and a Showdown terminal.
C20_SolveTreeBuilt ==
    (OnBuild /\ ab = SolveAbstraction /\ ctx.max_nodes = SolveBudget) =>
        /\ outcome # "thrown"
        /\ Len(Nodes) < SolveBudget
        /\ outcome = "returned" =>
              /\ ctx.tree.root_id >= 0
              /\ \E i \in 1..Len(Nodes) : Nodes[i].type = NodeDecision
              /\ \E i \in 1..Len(Nodes) : Nodes[i].type = NodeChance
              /\ \E i \in 1..Len(Nodes) :
                    Nodes[i].type = NodeTerminal /\ Nodes[i].terminal.kind = KindFold
              /\ \E i \in 1..Len(Nodes) :
                    Nodes[i].type = NodeTerminal /\ Nodes[i].terminal.kind = KindShowdown

\* build(300000) has returned solve_main's tree.
C20_Witness ==
    /\ OnBuild /\ outcome = "returned" /\ ctx.max_nodes = SolveBudget
    /\ ab = SolveAbstraction
    /\ ctx.tree.root_id = 0
    /\ Len(Nodes) > 1000

OnEval == run = "eval"

\* Two five-card hands have been scored.
Scored5 == OnEval /\ score # << >> /\ Len(hands[1]) = 5

\* How often rank r occurs among five cards.
RankCount(cards, r) == Cardinality({i \in 1..5 : rank_of(cards[i]) = r})

\* The category of five distinct cards by the rules of poker: 0 high card,
\* 1 pair, 2 two pair, 3 trips, 4 straight, 5 flush, 6 full house, 7 quads,
\* 8 straight flush.
HandCategory(cards) ==
    LET held == {rank_of(cards[i]) : i \in 1..5}
        counts == {RankCount(cards, r) : r \in held}
        flush == Cardinality({suit_of(cards[i]) : i \in 1..5}) = 1
        straight == \/ \E low \in 2..10 : held = low..(low + 4)
                    \/ held = {14, 2, 3, 4, 5}
    IN  IF straight /\ flush THEN 8
        ELSE IF 4 \in counts THEN 7
        ELSE IF counts = {3, 2} THEN 6
        ELSE IF flush THEN 5
        ELSE IF straight THEN 4
        ELSE IF 3 \in counts THEN 3
        ELSE IF Cardinality(held) = 3 THEN 2
        ELSE IF Cardinality(held) = 4 THEN 1
        ELSE 0

\* The rank four of the cards share, and the rank of the fifth.
QuadRank(cards) == CHOOSE r \in 2..14 : RankCount(cards, r) = 4

QuadKicker(cards) == CHOOSE r \in 2..14 : RankCount(cards, r) = 1

\* C21: of two five-card hands the one of the higher category (high card < pair
\* < two pair < trips < straight < flush < full house < quads < straight flush)
\* has the strictly greater evaluate_5cards score whatever the ranks; of two
\* quads the higher quad rank wins, and with equal quad ranks the higher kicker.
C21_CategoryDominates ==
    Scored5 =>
        LET h1 == hands[1]
            h2 == hands[2]
        IN  /\ HandCategory(h1) > HandCategory(h2) => score[1] > score[2]
            /\ HandCategory(h1) = 7 /\ HandCategory(h2) = 7 =>
                  /\ QuadRank(h1) > QuadRank(h2) => score[1] > score[2]
                  /\ QuadRank(h1) = QuadRank(h2) /\ QuadKicker(h1) > QuadKicker(h2)
                        => score[1] > score[2]

\* The lowest quads have been scored against the highest full house.
C21_Witness ==
    /\ Scored5
    /\ hands = <<HandOf(<<2, 2, 2, 2, 3>>, Offsuit), HandOf(<<14, 14, 14, 13, 13>>, Offsuit)>>
    /\ HandCategory(hands[1]) = 7 /\ HandCategory(hands[2]) = 6
    /\ score[1] > score[2]

\* evaluate_7card has returned.
Scored7 == OnEval /\ score # << >> /\ Len(hands[1]) = 2

\* The cards of a sequence, as a set.
CardSet(cards) == {cards[i] : i \in 1..Len(cards)}

\* The five-card subsets of a set of cards.
FiveOf(S) == {T \in SUBSET S : Cardinality(T) = 5}

\* Seven cards handed over starting from the k-th, the others following in a circle.
Rotated(seven, k) == [i \in 1..7 |-> seven[((i + k - 2) % 7) + 1]]

\* C22: evaluate_7card(hole, board) is the largest evaluate_5cards score among
\* the 21 five-card subsets of the seven cards, and handing the same cards over
\* in another order changes neither the five-card nor the seven-card score.
C22_BestOfSubsets ==
    /\ Scored7 =>
          LET seven == hands[1] \o hands[2]
              subsets == FiveOf(CardSet(seven))
          IN  /\ Cardinality(subsets) = 21
              /\ score[1] = SetMax({evaluate_5cards(AscSeq(T)) : T \in subsets})
              /\ \A k \in 1..7 :
                    evaluate_7card(SubSeq(Rotated(seven, k), 1, 2),
                                   SubSeq(Rotated(seven, k), 3, 7)) = score[1]
    /\ Scored5 /\ CardSet(hands[1]) = CardSet(hands[2]) => score[1] = score[2]

\* A royal flush found by leaving out the first and the last of the seven cards.
C22_Witness ==
    /\ Scored7
    /\ hands = << <<7, 8>>, <<9, 10, 11, 12, 24>> >>
    /\ score[1] = evaluate_5cards(<<8, 9, 10, 11, 12>>)
    /\ score[1] > evaluate_5cards(hands[2])

\* build has returned its tree.
TreeReturned == OnBuild /\ outcome = "returned"

\* The edges parent -> child of the tree, as pairs of ids.
Edges ==
    UNION {{<<Nodes[i].id, Nodes[i].children[k]>> : k \in 1..Len(Nodes[i].children)} :
              i \in 1..Len(Nodes)}

\* C23 as stated: in the returned tree every edge parent -> child has
\* parent.id < child.id.
C23_ParentBeforeChild ==
    TreeReturned => \A e \in Edges : e[1] < e[2]

\* C23, amended: in the returned tree every node other than the root is the
\* child of a node with a smaller id (the parent that first reached it), no node
\* is its own child, and every child id is the index of a node.
C23_FirstParentBeforeChild ==
    TreeReturned =>
        LET edges == Edges
        IN  /\ \A e \in edges : e[1] # e[2] /\ e[2] \in 0..(Len(Nodes) - 1)
            /\ \A i \in 1..Len(Nodes) :
                  /\ Nodes[i].id = i - 1
                  /\ Nodes[i].id # ctx.tree.root_id =>
                        \E e \in edges : e[2] = Nodes[i].id /\ e[1] < e[2]

\* A returned tree with a memoised child: a node that has a parent inserted
\* before it and another parent inserted after it.
C23_Witness ==
    /\ TreeReturned
    /\ \E e1 \in Edges, e2 \in Edges : e1[2] = e2[2] /\ e1[1] < e1[2] /\ e2[1] > e2[2]

OnHttp == run = "http"

\* The number a sequence of at most nine decimal digits denotes.
DecimalValue(digits) ==
    LET RECURSIVE upto(_)
        upto(k) == IF k = 0 THEN 0 ELSE upto(k - 1) * 10 + digits[k]
    IN  upto(Len(digits))

\* The request carries an integer index in [0, n).
IndexInRange(q, n) ==
    /\ q.has_index /\ ~q.negative /\ q.fraction = << >>
    /\ Len(q.digits) <= 9
    /\ DecimalValue(q.digits) < n

\* C24 as stated: POST /apply_action with an index outside
\* [0, len(legal_actions(state))), or with no integer index, is answered 400 and
\* leaves the hand state as it was; with an index in range exactly
\* legal_actions(state)[index] is applied and the answer is {"ok": true}.
C24_IndexChecked ==
    [][OnHttp =>
         LET legals == legal_actions(state)
             q == request'
         IN  IF IndexInRange(q, Len(legals))
             THEN /\ response' = OkResponse(TRUE)
                  /\ state' = apply_action(state, rng, legals[DecimalValue(q.digits) + 1]).state
             ELSE /\ response'.status = 400
                  /\ state' = state]_vars

\* The players who acted on street st of history h from its last Bet or Raise
\* on (from its first action, if there was none).
ActedSinceAggression(h, st) ==
    LET on == {i \in 1..Len(h) : h[i].street = st}
        aggressive == {i \in on : h[i].type \in {Bet, Raise}}
        from == IF aggressive = {} THEN 0 ELSE SetMax(aggressive)
    IN  {h[i].player : i \in {j \in on : j >= from}}

\* C25: when an applied action moves the engine to another street without a
\* fold, both players have put in the same amount and each of them has acted
\* on the street that ended since its last Bet or Raise (the blinds not counting).
C25_RoundClosure ==
    [][(OnEngine /\ state'.street # state.street
            /\ ~state'.folded[0] /\ ~state'.folded[1]) =>
         /\ state'.committed_total[0] = state'.committed_total[1]
         /\ ActedSinceAggression(state'.history, state.street) = Players]_vars

\* The chips the player to act owes in s: current_bet - committed_this_round[p].
CallOf(s) == s.current_bet - s.committed_this_round[s.to_act]

\* The amounts of the Raises the sizing rule gives the player to act in s:
\* for x in {0.5, 1, 2} the amount taking the bet to
\* max(current_bet + max(1, last_bet_size), current_bet + floor(pot * x)), kept
\* when it lies strictly between the call and the stack, and the stack itself.
RaiseAmounts(s) ==
    LET q == s.to_act
        stack == s.stacks[q]
        \* floor(pot * x) for x = halves / 2
        floor(halves) == (s.pot * halves) \div 2
        target(halves) ==
            Max2(s.current_bet + Max2(1, s.last_bet_size), s.current_bet + floor(halves))
        sized == {target(halves) - s.committed_this_round[q] : halves \in {1, 2, 4}}
    IN  IF stack > CallOf(s)
        THEN {a \in sized : CallOf(s) < a /\ a < stack} \cup {stack}
        ELSE {}

\* C26: in a state where the player to act owes a call > 0, legal_actions offers
\* exactly Fold, Call(min(call, stack)) and the Raises of the sizing rule (none
\* unless stack > call); every Raise but the all-in takes the bet to the
\* min-raise target or beyond, every Raise takes it above current_bet, and a
\* Raise applied without ending the betting leaves current_bet at that amount.
C26_RaiseSizing ==
    /\ [](OnEngine /\ state.street \notin {Showdown, Terminal} /\ CallOf(state) > 0 =>
            LET q == state.to_act
                stack == state.stacks[q]
                to(a) == state.committed_this_round[q] + a
            IN  /\ TypeAmounts(legal_actions(state)) =
                      {<<Fold, 0>>, <<Call, Min2(CallOf(state), stack)>>}
                          \cup {<<Raise, a>> : a \in RaiseAmounts(state)}
                /\ \A a \in RaiseAmounts(state) :
                      /\ to(a) > state.current_bet
                      /\ a # stack => to(a) >= state.current_bet + Max2(1, state.last_bet_size))
    /\ [][(OnEngine /\ returned' = "true" /\ Len(state'.history) = Len(state.history) + 1
              /\ state'.history[Len(state'.history)].type = Raise
              /\ state'.street = state.street) =>
            /\ state'.current_bet = state.committed_this_round[state.to_act]
                                      + state'.history[Len(state'.history)].amount
            /\ state'.current_bet > state.current_bet]_vars

\* After a Raise the opponent owes a call and is offered a Raise below its
\* stack next to the all-in.
C26_Witness ==
    /\ OnEngine /\ returned = "true"
    /\ state.street \notin {Showdown, Terminal}
    /\ Len(state.history) >= 1 /\ state.history[Len(state.history)].type = Raise
    /\ CallOf(state) > 0
    /\ \E a \in RaiseAmounts(state) : a < state.stacks[state.to_act]
    /\ state.stacks[state.to_act] \in RaiseAmounts(state)

\* actions ascend strictly by (type, amount), all belong to player q, and Fold
\* and Check do not both occur.
WellOrdered(actions, q) ==
    /\ \A i \in 1..(Len(actions) - 1) :
          \/ actions[i].type < actions[i + 1].type
          \/ /\ actions[i].type = actions[i + 1].type
             /\ actions[i].amount < actions[i + 1].amount
    /\ \A i \in 1..Len(actions) : actions[i].player = q
    /\ ~(\E i, j \in 1..Len(actions) : actions[i].type = Fold /\ actions[j].type = Check)

\* C27: legal_actions, of the engine and of the tree logic, returns its actions
\* sorted by (type, amount) in the order Fold < Check < Call < Bet < Raise with no
\* two entries of the same (type, amount); every entry has player = to_act, and
\* Check and Fold are never offered together.
C27_SortedUnique ==
    /\ Fold < Check /\ Check < Call /\ Call < Bet /\ Bet < Raise
    /\ OnEngine => WellOrdered(legal_actions(state), state.to_act)
    /\ OnTree => WellOrdered(detail_legal_actions(trans.state, ab), trans.state.to_act)

\* After a Raise the engine offers Fold, Call and at least two Raises.
C27_Witness ==
    /\ OnEngine /\ returned = "true"
    /\ state.street \notin {Showdown, Terminal}
    /\ state.history[Len(state.history)].type = Raise
    /\ LET legals == legal_actions(state)
       IN  /\ Len(legals) >= 4
           /\ legals[1].type = Fold /\ legals[2].type = Call
           /\ legals[3].type = Raise /\ legals[4].type = Raise
           /\ legals[3].amount < legals[4].amount

\* The positions in the history of s of the actions taken on its current street.
OnStreet(s) == {i \in 1..Len(s.history) : s.history[i].street = s.street}

\* A Bet or a Raise has been applied on the current street of s.
BetOnStreet(s) == \E i \in OnStreet(s) : s.history[i].type \in {Bet, Raise}

\* The engine is in a state where betting goes on.
InBetting == OnEngine /\ state.street \in {Preflop, Flop, Turn, River}

\* C28 as stated: in every engine state that is not terminal last_bet_size >= 1
\* if a Bet or Raise has been applied on the current street, and
\* last_bet_size = 0 in the first state of every betting round, Preflop included.
C28_LastBetZeroAtStart ==
    InBetting =>
        /\ BetOnStreet(state) => state.last_bet_size >= 1
        /\ OnStreet(state) = {} => state.last_bet_size = 0

\* C28, amended: last_bet_size >= 1 if a Bet or Raise has been applied on the
\* current street; in the first state of the Flop, the Turn and the River it is
\* 0, and in the first state of Preflop it is big_blind - small_blind, as
\* new_hand sets it.
C28_LastBetAtStart ==
    InBetting =>
        /\ BetOnStreet(state) => state.last_bet_size >= 1
        /\ OnStreet(state) = {} =>
              state.last_bet_size = IF state.street = Preflop
                                    THEN args.big_blind - args.small_blind
                                    ELSE 0

\* The first state of the Flop, reached after a Raise on Preflop.
C28_Witness ==
    /\ InBetting /\ state.street = Flop
    /\ OnStreet(state) = {}
    /\ \E i \in 1..Len(state.history) : state.history[i].type = Raise
    /\ state.last_bet_size = 0

\* C29: in every engine state at most one player is folded; if a player is
\* folded the street is Terminal and terminal_payoff reports the reason "fold";
\* a Terminal state without a folded player reports "showdown".
C29_FoldedIsTerminal ==
    OnEngine =>
        /\ ~(state.folded[0] /\ state.folded[1])
        /\ (state.folded[0] \/ state.folded[1]) =>
              /\ state.street = Terminal
              /\ terminal_payoff(state).reason = "fold"
        /\ (state.street = Terminal /\ ~state.folded[0] /\ ~state.folded[1]) =>
              terminal_payoff(state).reason = "showdown"

\* The big blind has folded to a Raise.
C29_Witness ==
    /\ OnEngine /\ returned = "true"
    /\ state.folded[1] /\ ~state.folded[0]
    /\ state.street = Terminal
    /\ Len(state.history) >= 2
    /\ state.history[Len(state.history)].type = Fold
    /\ terminal_payoff(state).reason = "fold"

\* The action the step has just applied.
Applied == state'.history[Len(state'.history)]

\* The step applies an action.
Applies == OnEngine /\ returned' = "true" /\ Len(state'.history) = Len(state.history) + 1

\* C30: no state returned by new_hand or left by apply_action has street =
\* Showdown; the street never moves backwards; and the action that closes the
\* betting on the River (a Call, or a Check answering a Check) leaves the state
\* at Terminal with a full board in that same call.
C30_ShowdownTransient ==
    /\ [](OnEngine => state.street # Showdown)
    /\ [][OnEngine => state'.street >= state.street]_vars
    /\ [][(Applies /\ state.street = River) =>
            /\ state'.street \in {River, Terminal}
            /\ (\/ Applied.type = Call
                \/ /\ Applied.type = Check
                   /\ state.history # << >>
                   /\ state.history[Len(state.history)].type = Check
                   /\ state.history[Len(state.history)].street = River) =>
                  /\ state'.street = Terminal
                  /\ Len(state'.board) = 5]_vars

\* A hand that went to the River and was closed there by a Call.
C30_Witness ==
    /\ OnEngine /\ returned = "true"
    /\ state.street = Terminal
    /\ ~state.folded[0] /\ ~state.folded[1]
    /\ Len(state.history) >= 2
    /\ state.history[Len(state.history)].type = Call
    /\ state.history[Len(state.history)].street = River
    /\ Len(state.board) = 5

\* acted_this_round with no flag set.
NoFlags == [p \in Players |-> FALSE]

\* acted_this_round as action a leaves it before any street change resets it.
FlagsAfter(s, a) ==
    IF a.type \in {Bet, Raise} THEN [q \in Players |-> q = a.player]
    ELSE [s.acted_this_round EXCEPT ![a.player] = TRUE]

\* committed_this_round as action a leaves it before any street change resets it.
CommittedAfter(s, a) ==
    IF a.type \in {Call, Bet, Raise}
    THEN [s.committed_this_round EXCEPT ![a.player] = @ + Min2(a.amount, s.stacks[a.player])]
    ELSE s.committed_this_round

\* Both flags are set and the commitments are equal once a has been applied to s.
ClosedAfter(s, a) ==
    /\ FlagsAfter(s, a) = [p \in Players |-> TRUE]
    /\ CommittedAfter(s, a)[0] = CommittedAfter(s, a)[1]

\* C31: acted_this_round is {false, false} in initial_state and after every
\* street advance; Check, Call, Bet and Raise by p set acted_this_round[p], Bet
\* and Raise clear the opponent's flag; the street advances exactly when after
\* the action both flags are set and the commitments are equal; after the small
\* blind's limp the big blind is still to act on Preflop.
C31_ActedFlags ==
    /\ [](OnTree /\ trans.state = initial_state(ab) => trans.state.acted_this_round = NoFlags)
    /\ [][OnTree =>
            \A i \in 1..Len(detail_legal_actions(trans.state, ab)) :
                LET s == trans.state
                    a == detail_legal_actions(s, ab)[i]
                    after == trans'.state
                IN  (trans' = detail_apply_action(s, a) /\ a.type # Fold) =>
                        /\ after.street # s.street => after.acted_this_round = NoFlags
                        /\ after.street = s.street => after.acted_this_round = FlagsAfter(s, a)
                        /\ after.street # s.street <=> ClosedAfter(s, a)
                        /\ (s = initial_state(ab) /\ a.type = Call) =>
                              /\ after.street = Preflop
                              /\ after.to_act = 1
                              /\ \E j \in 1..Len(detail_legal_actions(after, ab)) :
                                    detail_legal_actions(after, ab)[j].type = Check]_vars

\* The types legal_actions offers in TreeState s.
TreeTypes(s) ==
    {detail_legal_actions(s, ab)[i].type : i \in 1..Len(detail_legal_actions(s, ab))}

\* The raise counter stays within the cap, and at the cap no Bet and no Raise
\* is offered.
RaiseCapKept ==
    OnTree =>
        /\ trans.state.raises_this_street >= 0
        /\ trans.state.raises_this_street <= ab.max_raises_per_street
        /\ trans.state.raises_this_street = ab.max_raises_per_street =>
              TreeTypes(trans.state) \subseteq {Fold, Check, Call}

ChanceReported(n, a, child) ==
    LET tr == detail_apply_action(n.state, a)
    IN  /\ ~(tr.via_chance /\ tr.is_terminal)
        /\ tr.via_chance <=>
              /\ tr.state.street \in {Flop, Turn, River}
              /\ tr.state.street # n.state.street
        /\ tr.via_chance =>
              /\ n.state.street \in {Preflop, Flop, Turn}
              /\ tr.state.street = n.state.street + 1
              /\ tr.state.to_act = 0
              /\ ClosedAfter(n.state, a)
        /\ (n.state.street = River /\ a.type # Fold /\ ClosedAfter(n.state, a)) =>
              /\ tr.is_terminal
              /\ tr.terminal_kind = KindShowdown
              /\ ~tr.via_chance
        /\ a.type = Fold =>
              /\ tr.is_terminal
              /\ tr.terminal_kind = KindFold
        /\ child.type = NodeChance <=> tr.via_chance
        /\ child.type = NodeTerminal <=> tr.is_terminal
        /\ child.type = NodeChance => child.state.street # n.state.street

\* C33: via_chance and is_terminal are never both true; via_chance is true
\* exactly when the action closed the round on Preflop, Flop or Turn; a round
\* closing on the River is a Showdown terminal without chance; a Fold is a Fold
\* terminal; every Chance node of the tree stands between a Decision node of one
\* street and a Decision node of the next, never before a Terminal node.
C33_ChanceBetweenStreets ==
    OnBuild =>
        \A i \in 1..Len(Nodes) :
            /\ Nodes[i].type = NodeDecision =>
                  \A k \in 1..Len(Nodes[i].children) :
                      ChanceReported(Nodes[i], Nodes[i].actions[k], NodeAt(Nodes[i].children[k]))
            /\ Nodes[i].type = NodeChance =>
                  \A k \in 1..Len(Nodes[i].children) :
                      /\ NodeAt(Nodes[i].children[k]).type = NodeDecision
                      /\ NodeAt(Nodes[i].children[k]).state = Nodes[i].state

\* A returned tree holds a Chance node before each of the Flop, Turn and River,
\* and a Decision node on the River whose round-closing action leads to a
\* Showdown terminal.
C33_Witness ==
    /\ TreeReturned
    /\ \A st \in {Flop, Turn, River} :
          \E i \in 1..Len(Nodes) :
              /\ Nodes[i].type = NodeChance
              /\ Nodes[i].state.street = st
              /\ Len(Nodes[i].children) = 1
    /\ \E i \in 1..Len(Nodes) :
          /\ Nodes[i].type = NodeDecision
          /\ Nodes[i].state.street = River
          /\ \E k \in 1..Len(Nodes[i].children) :
                /\ Nodes[i].actions[k].type \in {Check, Call}
                /\ NodeAt(Nodes[i].children[k]).type = NodeTerminal
                /\ NodeAt(Nodes[i].children[k]).terminal.kind = KindShowdown
                /\ NodeAt(Nodes[i].children[k]).state.stacks[0] > 0
                /\ NodeAt(Nodes[i].children[k]).state.stacks[1] > 0

\* The players marked folded in TreeState s.
Folders(s) == {p \in Players : s.folded[p]}

\* C34: every Terminal node has chip_delta_if_forced summing to 0; a Fold
\* terminal has exactly one folded player, the other player is the winner and
\* wins what the folder committed; a Showdown terminal has no folded player,
\* winner -1 and chip_delta_if_forced {0, 0}; terminal.pot is the sum of the two
\* committed totals.
C34_TerminalDeltas ==
    OnBuild =>
        \A i \in 1..Len(Nodes) :
            Nodes[i].type = NodeTerminal =>
                LET td == Nodes[i].terminal
                    s == Nodes[i].state
                IN  /\ td.chip_delta_if_forced[0] + td.chip_delta_if_forced[1] = 0
                    /\ td.pot = td.committed_total[0] + td.committed_total[1]
                    /\ td.pot = s.pot
                    /\ td.committed_total = s.committed_total
                    /\ td.kind = KindFold =>
                          /\ Cardinality(Folders(s)) = 1
                          /\ td.winner \in Players
                          /\ Folders(s) = {1 - td.winner}
                          /\ td.chip_delta_if_forced[td.winner] = td.committed_total[1 - td.winner]
                          /\ td.chip_delta_if_forced[1 - td.winner] = 0 - td.committed_total[1 - td.winner]
                    /\ td.kind = KindShowdown =>
                          /\ Folders(s) = {}
                          /\ td.winner = -1
                          /\ td.chip_delta_if_forced = [p \in Players |-> 0]

\* A returned tree holds a Fold terminal won by each player, one of them worth
\* more than a blind, and a Showdown terminal.
C34_Witness ==
    /\ TreeReturned
    /\ \A w \in Players :
          \E i \in 1..Len(Nodes) :
              /\ Nodes[i].type = NodeTerminal
              /\ Nodes[i].terminal.kind = KindFold
              /\ Nodes[i].terminal.winner = w
    /\ \E i \in 1..Len(Nodes) :
          /\ Nodes[i].type = NodeTerminal
          /\ Nodes[i].terminal.kind = KindFold
          /\ Nodes[i].terminal.chip_delta_if_forced[Nodes[i].terminal.winner] > 2
    /\ \E i \in 1..Len(Nodes) :
          /\ Nodes[i].type = NodeTerminal
          /\ Nodes[i].terminal.kind = KindShowdown
          /\ Nodes[i].terminal.pot > 3

\* Every action of the list legals offered in a state with these stacks costs
\* at most the actor's stack: a Call is the amount owed clipped to the stack, a
\* Bet or Raise is below the stack or the all-in, a Fold or Check costs nothing.
WithinStack(s, legals) ==
    \A i \in 1..Len(legals) :
        LET a == legals[i]
            stack == s.stacks[a.player]
            owed == Max2(0, s.current_bet - s.committed_this_round[a.player])
        IN  /\ a.player = s.to_act
            /\ a.amount >= 0 /\ a.amount <= stack
            /\ a.type \in {Fold, Check} => a.amount = 0
            /\ a.type = Call => a.amount = Min2(owed, stack)
            /\ a.type \in {Bet, Raise} =>
                  /\ a.amount > 0
                  /\ a.amount = stack =>
                        \A j \in 1..Len(legals) :
                            (j # i /\ legals[j].type = a.type) => legals[j].amount < stack

\* C35: both stacks are >= 0 in every reachable state of the engine and of the
\* TreeState, and every legal action's amount is at most the actor's stack: the
\* Call is clipped to it, sized Bets and Raises are strictly below it, the all-in
\* equals it.
C35_StacksNonNegative ==
    /\ OnEngine =>
          /\ \A p \in Players : state.stacks[p] >= 0
          /\ WithinStack(state, legal_actions(state))
          /\ \A i \in 1..Len(legal_actions(state)) :
                (legal_actions(state)[i].type \in {Bet, Raise}
                    /\ i = Len(legal_actions(state))) =>
                        legal_actions(state)[i].amount = state.stacks[state.to_act]
    /\ OnTree =>
          /\ \A p \in Players : trans.state.stacks[p] >= 0
          /\ WithinStack(trans.state, detail_legal_actions(trans.state, ab))
          /\ \A i \in 1..Len(detail_legal_actions(trans.state, ab)) :
                (detail_legal_actions(trans.state, ab)[i].type \in {Bet, Raise}
                    /\ ab.allow_all_in
                    /\ i = Len(detail_legal_actions(trans.state, ab))) =>
                        detail_legal_actions(trans.state, ab)[i].amount
                            = trans.state.stacks[trans.state.to_act]

\* A hand ended by an all-in Bet or Raise of more than three chips: the all-in
\* was the whole stack, which is now 0, while the opponent still has chips.
C35_Witness ==
    /\ OnEngine
    /\ state.street = Terminal
    /\ ~state.folded[0] /\ ~state.folded[1]
    /\ Len(state.history) >= 2
    /\ LET last == state.history[Len(state.history)]
       IN  /\ last.type \in {Bet, Raise}
           /\ last.amount > 3
           /\ state.stacks[last.player] = 0
           /\ state.stacks[1 - last.player] > 0

\* C36: every bet is answered before showdown: a Terminal state of the engine or
\* of the TreeState reached without a fold has equal committed totals, and after
\* an all-in Bet or Raise the opponent is next to act with Fold and Call legal.
C36_BetsAnswered ==
    /\ (OnEngine /\ state.street = Terminal /\ ~state.folded[0] /\ ~state.folded[1]) =>
          state.committed_total[0] = state.committed_total[1]
    /\ (OnTree /\ trans.state.street = Terminal
              /\ ~trans.state.folded[0] /\ ~trans.state.folded[1]) =>
          trans.state.committed_total[0] = trans.state.committed_total[1]
    /\ (OnEngine /\ Len(state.history) >= 1) =>
          LET last == state.history[Len(state.history)]
          IN  (last.type \in {Bet, Raise} /\ state.stacks[last.player] = 0) =>
                  /\ state.street # Terminal
                  /\ state.to_act = 1 - last.player
                  /\ {Fold, Call} \subseteq
                        {legal_actions(state)[i].type : i \in 1..Len(legal_actions(state))}

\* The cards dealt in engine state s, hole cards first.
DealtCards(s) == s.hole_cards[0] \o s.hole_cards[1] \o s.board

\* C37: in every reachable engine state the four hole cards and the board cards
\* are pairwise distinct ids in 0..51 and used_cards marks exactly them; the
\* board has 0 cards on Preflop, 3 on the Flop, 4 on the Turn, 5 on the River and
\* 5 in every Terminal state reached without a fold.
C37_CardBookkeeping ==
    OnEngine =>
        LET dealt == DealtCards(state)
        IN  /\ Len(state.hole_cards[0]) = 2 /\ Len(state.hole_cards[1]) = 2
            /\ \A i \in 1..Len(dealt) : dealt[i] \in 0..51
            /\ \A i, j \in 1..Len(dealt) : i # j => dealt[i] # dealt[j]
            /\ state.used_cards = {dealt[i] : i \in 1..Len(dealt)}
            /\ state.street = Preflop => Len(state.board) = 0
            /\ state.street = Flop => Len(state.board) = 3
            /\ state.street = Turn => Len(state.board) = 4
            /\ state.street = River => Len(state.board) = 5
            /\ (state.street = Terminal /\ ~state.folded[0] /\ ~state.folded[1]) =>
                  Len(state.board) = 5

\* An all-in on Preflop ended the hand: deal_remaining_board dealt all five
\* board cards at once, drawing again where the stream repeated a card in use.
C37_Witness ==
    /\ OnEngine
    /\ state.street = Terminal
    /\ ~state.folded[0] /\ ~state.folded[1]
    /\ Len(state.history) = 1
    /\ state.hole_cards[0] = <<12, 25>>
    /\ state.hole_cards[1] = <<11, 24>>
    /\ state.board = <<0, 14, 33, 48, 5>>

\* The progress measure of a node: street, pot, number of acted flags set, and
\* the Chance node before the Decision node of the same state.
NodeRank(n) ==
    <<n.state.street, n.state.pot,
      Cardinality({p \in Players : n.state.acted_this_round[p]}),
      IF n.type = NodeChance THEN 0 ELSE 1>>

\* Lexicographic order on ranks.
RankLess(r1, r2) ==
    \E k \in 1..4 : r1[k] < r2[k] /\ \A j \in 1..(k - 1) : r1[j] = r2[j]

\* The ids of the nodes whose expansion has begun and not yet returned.
Expanding == {calls[i].id : i \in 1..Len(calls)}

\* Every edge of the graph built so far leads to a node of greater rank, a build
\* that has not ended has a call to go on with, and a call about to be answered
\* from memo gets a node that is not being expanded.
AcyclicExpansion ==
    OnBuild =>
        /\ \A e \in Edges : RankLess(NodeRank(NodeAt(e[1])), NodeRank(NodeAt(e[2])))
        /\ outcome = "building" => calls # << >>
        /\ (outcome = "building" /\ calls # << >> /\ ~calls[Len(calls)].done) =>
              LET key == CallKey(NextCall(calls[Len(calls)]))
              IN  key \in DOMAIN ctx.memo => ctx.memo[key] \notin Expanding

\* C38: no TreeState is reachable from itself by legal actions, every action
\* raising the pot, setting an acted flag, advancing the street or ending the
\* hand; so the graph under construction has no cycle, a memo hit never returns
\* a node still being expanded, and build ends by returning a tree or throwing
\* the budget error.
C38_AcyclicAndTerminates ==
    /\ []AcyclicExpansion
    /\ <>(outcome \in {"returned", "thrown"})

\* build has returned a graph that is not a tree: memo hits have given some
\* nodes more than one parent.
C38_Witness ==
    /\ TreeReturned
    /\ Len(Nodes) >= 20
    /\ Cardinality(Edges) > Len(Nodes)

OnUi == run = "ui"

\* This step sends a request to path: a call of the page starts and suspends at
\* its await.
Sent(path) ==
    /\ Len(flows') = Len(flows) + 1
    /\ flows'[Len(flows')].path = path

\* C39: the page sends a clicked action index to /apply_action only while the
\* server's state has to_act equal to the selected human player, and sends
\* /apply_random_action only while to_act is the other player and the hand is
\* not Terminal.
C39_TurnDiscipline ==
    [][OnUi =>
          /\ Sent("/apply_action") => state.to_act = human
          /\ Sent("/apply_random_action") =>
                state.to_act # human /\ state.street # Terminal]_vars

\* The requests of the page that change the server's state and still await
\* their response.
InFlight == {i \in 1..Len(flows) : flows[i].path \in StateChanging}

\* C40: at most one of /apply_action, /apply_random_action and /new_hand is in
\* flight at any time, and at most one AI timer is pending; a /new_hand never
\* overlaps with an action request.
C40_RequestExclusion ==
    OnUi =>
        /\ Cardinality(InFlight) <= 1
        /\ Cardinality(timers) <= 1

====
